---------------------------- MODULE Spec2Model ----------------------------
(***************************************************************************)
(* Golden-question pipeline of digdir/kunnskapsassistenten                 *)
(* (src/evals/golden_questions/src): the two-stage deduplicator, the       *)
(* LLM-call retry loops behind the caching client, the subject-topic       *)
(* worker pool and the orchestrator's side-channel files.                  *)
(*                                                                         *)
(* The module holds several state machines over one set of variables;      *)
(* each specification drives one of them and leaves the others at rest:    *)
(*   SpecDedup     deduplicate_questions          (deduplicator.py)        *)
(*   SpecRetry     the three *_llm retry loops    (categorizer_llm.py,     *)
(*                 reformulator_llm.py, subject_categorizer_llm.py) over   *)
(*                 CachedLLMClient                (llm_cache.py)           *)
(*   SpecPool      categorize_subject_topics      (ThreadPoolExecutor)     *)
(*   SpecPipeline  process_conversations, run after run (main.py)          *)
(*   SpecAccount   process_conversations, one run on a longer input        *)
(*   SpecExtract   extract_golden_questions       (extractor.py)           *)
(*   SpecBatch     categorize_questions_llm       (categorizer_llm.py)     *)
(*   SpecExact     deduplicate_questions, exact stage only                 *)
(*   SpecSemantic  deduplicate_questions with failing embedding calls      *)
(*   SpecClient    CachedLLMClient.create under worker threads             *)
(*   SpecContext   conversation context of a reformulation                 *)
(***************************************************************************)
EXTENDS Integers, Sequences, FiniteSets, TLC

VARIABLES
    \* ---- deduplicate_questions --------------------------------------
    questions,            \* input list: sequence of [id, text]
    similarity_threshold, \* [num, den]: the rational num/den
    dedup_cfg,            \* [use_semantic, has_client, fail_at, out_file]
    dd_pc,                \* "ready" | "returned" | "raised"
    deduplicated,         \* returned list
    duplicates,           \* list of [dup, orig, score]
    dropped_file,         \* content of output_dropped_file: list of records
    embedding_called,     \* the call reached client.embeddings.create
    prev_run,             \* [valid, threshold, count] of the previous call
    \* ---- *_llm retry loops over the (cached) client -------------------
    op,                   \* "reformulate" | "categorize" | "subject"
    max_retries,
    cached,               \* client is a CachedLLMClient (enable_cache)
    backend,              \* what the backend answers to its k-th call
    attempt,              \* loop variable of `for attempt in range(...)`
    rt_pc,                \* "idle" | "call" | "sleep" | "returned" | "raised"
    cache,                \* cached completion for the request key, or NoEntry
    backend_calls,        \* calls that reached the backend
    log,                  \* events of the run: "call" and <<"sleep", secs>>
    \* ---- categorize_subject_topics -----------------------------------
    pool_n,               \* number of questions submitted
    max_workers,
    task,                 \* task[q]: "unsubmitted" | "queued" | "calling" | "done"
    answers,              \* answers[q]: what the backend answers to q's call
    future,               \* future[q]: "pending" | "ok" | "fail" | "exception"
    collected,            \* futures the driver has taken from as_completed
    successfully_categorized,
    failed_categorizations,
    pool_pc,              \* "idle", "submitting", "collecting", "aborting", "returned", "raised"
    \* ---- process_conversations ---------------------------------------
    pl_pc,                \* position of the orchestrator
    input_file,           \* user turns of the conversations in input_file
    all_questions,
    all_failed_reformulations,
    categorized_questions,
    failed_usage_mode,
    subject_categorized_questions,
    failed_subject_topics,
    deduplicated_questions,
    run_duplicates,       \* duplicates dropped by the current run
    files,                \* the run's output and side-channel files
    files_at_start,       \* the files the run found non-empty
    \* ---- extract_golden_questions ------------------------------------
    conv_messages,        \* conv.messages: records [role, text]
    has_llm_client,       \* llm_client is not None
    msg_i,                \* position of the loop in conv.messages (from 1)
    user_message_index,
    ex_questions,         \* the list `questions` being built
    failed_reformulations,
    reformulate_calls,    \* positions whose turn was sent to the LLM
    ex_pc,                \* "idle", "loop", "returned"
    \* ---- categorize_questions_llm ------------------------------------
    cq_questions,         \* the argument `questions`
    cq_i,                 \* position of the loop in questions (from 1)
    cq_successfully_categorized,
    cq_failed_categorizations,
    cq_calls,             \* LLM calls made: <<question id, what it yielded>>
    cq_pc,                \* "idle", "loop", "returned", "raised"
    \* ---- CachedLLMClient under concurrent callers ---------------------
    _enabled,             \* CachedLLMClient._enabled
    _cache,               \* CachedLLMClient._cache: key -> entry or None
    _stats,               \* CachedLLMClient._stats: [hits, misses]
    cl_n,                 \* number of create calls the callers make
    cl_workers,           \* threads that may be inside create at a time
    cl_request,           \* cl_request[c]: the request of call c
    cl_pc,                \* cl_pc[c]: position of call c inside create
    cl_local,             \* cl_local[c]: the locals of call c (see NewCall)
    api_calls,            \* calls that reached the underlying client
    \* ---- the context of a user turn ----------------------------------
    previous_messages,    \* conv.messages[:i] of the turn
    context,              \* lines built by _build_context_string
    context_msgs,         \* context_messages of the GoldenQuestion
    cx_pc                 \* "idle", "reformulate", "store", "done", "failed"

dedupVars == <<questions, similarity_threshold, dedup_cfg, dd_pc, deduplicated,
               duplicates, dropped_file, embedding_called, prev_run>>
retryVars == <<op, max_retries, cached, backend, attempt, rt_pc, cache,
               backend_calls, log>>
poolVars  == <<pool_n, max_workers, task, answers, future, collected,
               successfully_categorized, failed_categorizations, pool_pc>>
pipeVars  == <<pl_pc, input_file, all_questions, all_failed_reformulations,
               categorized_questions, failed_usage_mode,
               subject_categorized_questions, failed_subject_topics,
               deduplicated_questions, run_duplicates, files, files_at_start>>
extractVars == <<conv_messages, has_llm_client, msg_i, user_message_index,
                 ex_questions, failed_reformulations, reformulate_calls, ex_pc>>
batchVars == <<cq_questions, cq_i, cq_successfully_categorized,
               cq_failed_categorizations, cq_calls, cq_pc>>
clientVars == <<_enabled, _cache, _stats, cl_n, cl_workers, cl_request,
                cl_pc, cl_local, api_calls>>
contextVars == <<previous_messages, context, context_msgs, cx_pc>>
vars == <<dedupVars, retryVars, poolVars, pipeVars, extractVars, batchVars,
          clientVars, contextVars>>

\* The variables of the other machines, which an action leaves alone
exceptDedup == <<retryVars, poolVars, pipeVars, extractVars,
                 batchVars, clientVars, contextVars>>
exceptRetry == <<dedupVars, poolVars, pipeVars, extractVars,
                 batchVars, clientVars, contextVars>>
exceptPool == <<dedupVars, retryVars, pipeVars, extractVars,
                batchVars, clientVars, contextVars>>
exceptPipe == <<dedupVars, retryVars, poolVars, extractVars,
                batchVars, clientVars, contextVars>>
exceptExtract == <<dedupVars, retryVars, poolVars, pipeVars,
                   batchVars, clientVars, contextVars>>
exceptBatch == <<dedupVars, retryVars, poolVars, pipeVars,
                 extractVars, clientVars, contextVars>>
exceptClient == <<dedupVars, retryVars, poolVars, pipeVars,
                  extractVars, batchVars, contextVars>>
exceptContext == <<dedupVars, retryVars, poolVars, pipeVars,
                   extractVars, batchVars, clientVars>>

(***************************************************************************)
(* Bounds of the model.                                                    *)
(***************************************************************************)
MaxQuestions == 4

(***************************************************************************)
(* Generic helpers.                                                        *)
(***************************************************************************)
SeqsUpTo(S, n) == UNION {[1..k -> S] : k \in 0..n}

Range(s) == {s[k] : k \in DOMAIN s}

RECURSIVE Pow2(_)
Pow2(k) == IF k <= 0 THEN 1 ELSE 2 * Pow2(k - 1)

(***************************************************************************)
(* Question texts.  A text is a tuple of characters over a small alphabet  *)
(* with a letter in both cases, punctuation and whitespace.                *)
(***************************************************************************)
Punctuation == {"?", "."}
Whitespace  == {" "}

Texts ==
    { <<"a">>,
      <<"A", "?">>,
      <<"b">>,
      <<" ", "b", " ", ".">>,
      <<"c">>,
      <<"d">> }

\* str.lower() on the alphabet
Lower_Identity(c) == c

Lower(c) == IF c = "A" THEN "a" ELSE IF c = "B" THEN "b" ELSE c

LowerText(text) == [k \in DOMAIN text |-> Lower(text[k])]

\* re.sub(r"[^\w\s]", "", text)
StripPunctuation(text) == SelectSeq(text, LAMBDA c : c \notin Punctuation)

\* " ".join(text.split()): words separated by one blank, none at the ends
RECURSIVE JoinSplit(_, _, _)
JoinSplit(text, k, out) ==
    IF k > Len(text) THEN out
    ELSE IF text[k] \in Whitespace THEN JoinSplit(text, k + 1, out)
    ELSE IF k > 1 /\ text[k - 1] \in Whitespace /\ out # <<>>
         THEN JoinSplit(text, k + 1, out \o <<" ", text[k]>>)
         ELSE JoinSplit(text, k + 1, Append(out, text[k]))

_normalize_text(text) == JoinSplit(StripPunctuation(LowerText(text)), 1, <<>>)

(***************************************************************************)
(* Embeddings and cosine similarity.  Vectors have integer components, so  *)
(* that cos(u,v) = dot / sqrt(n1 * n2) is compared with a rational         *)
(* threshold exactly.  A score is the triple <<dot, n1, n2>>.              *)
(***************************************************************************)
\* client.embeddings.create(input=text): the embedding model is a fixed
\* function of the text
Embedding(text) ==
    CASE text = <<"a">>                -> <<1, 0, 2>>
      [] text = <<"A", "?">>           -> <<0, 0, 0>>
      [] text = <<"b">>                -> <<5, 0, 0>>
      [] text = <<" ", "b", " ", ".">> -> <<2, 0, 4>>
      [] text = <<"c">>                -> <<4, 3, 0>>
      [] text = <<"d">>                -> <<4, -3, 0>>

Dot(u, v) == u[1] * v[1] + u[2] * v[2] + u[3] * v[3]

ExactScore == <<1, 1, 1>>   \* the literal 1.0
ZeroScore  == <<0, 1, 1>>   \* the literal 0.0

_compute_cosine_similarity(vec1, vec2) ==
    LET dot_product == Dot(vec1, vec2)
        magnitude1sq == Dot(vec1, vec1)
        magnitude2sq == Dot(vec2, vec2)
    IN  IF magnitude1sq = 0 \/ magnitude2sq = 0
        THEN ZeroScore
        ELSE <<dot_product, magnitude1sq, magnitude2sq>>

\* score >= t for a threshold t = num/den with 0 <= num and 0 < den
ScoreGE(score, t) ==
    score[1] >= 0 /\
    score[1] * score[1] * t.den * t.den >= t.num * t.num * score[2] * score[3]

\* score == 1.0
ScoreIsOne(score) == score[1] > 0 /\ score[1] * score[1] = score[2] * score[3]

\* 0.0 <= t <= 1.0
ThresholdValid_Always(t) == TRUE

ThresholdValid(t) == 0 <= t.num /\ t.num <= t.den

ThresholdLT(t1, t2) == t1.num * t2.den < t2.num * t1.den


(***************************************************************************)
(* deduplicate_questions                                                   *)
(***************************************************************************)
Thresholds ==
    { [num |-> 0, den |-> 1], [num |-> 2, den |-> 5], [num |-> 3, den |-> 5],
      [num |-> 1, den |-> 1], [num |-> 6, den |-> 5], [num |-> -1, den |-> 10] }

\* use_semantic; embedding client and model given; fail_at = k > 0 when
\* the k-th call of client.embeddings.create raises (0: none does);
\* output_dropped_file given
DedupConfigs ==
    { [use_semantic |-> TRUE,  has_client |-> TRUE,  fail_at |-> 0, out_file |-> TRUE],
      [use_semantic |-> TRUE,  has_client |-> TRUE,  fail_at |-> 1, out_file |-> TRUE],
      [use_semantic |-> TRUE,  has_client |-> FALSE, fail_at |-> 0, out_file |-> TRUE],
      [use_semantic |-> FALSE, has_client |-> FALSE, fail_at |-> 0, out_file |-> FALSE] }

\* Mutant: the embeddings made before the failing call are used
EmbeddingsFailed_Never(texts, fail_at) == FALSE

\* _generate_embeddings: one call of client.embeddings.create per text, in
\* list order, inside one try block; any exception becomes a RuntimeError
\* and no embedding is returned
EmbeddingsFailed(texts, fail_at) == fail_at \in 1..Len(texts)

MkQuestions(texts) == [k \in DOMAIN texts |-> [id |-> k, text |-> texts[k]]]

\* Stage 1 written as a loop that deletes from the list it walks: the
\* question after a dropped one is passed over and stays
RECURSIVE ExactStage_SkipsAfterDrop(_, _, _, _, _)
ExactStage_SkipsAfterDrop(qs, k, seen_normalized, dedup, dups) ==
    IF k > Len(qs) THEN [deduplicated |-> dedup, duplicates |-> dups]
    ELSE LET question   == qs[k]
             normalized == _normalize_text(question.text)
         IN  IF normalized \notin DOMAIN seen_normalized
             THEN ExactStage_SkipsAfterDrop(qs, k + 1,
                      [n \in DOMAIN seen_normalized \cup {normalized} |->
                          IF n = normalized THEN question ELSE seen_normalized[n]],
                      Append(dedup, question), dups)
             ELSE ExactStage_SkipsAfterDrop(qs, k + 2, seen_normalized,
                      IF k < Len(qs) THEN Append(dedup, qs[k + 1]) ELSE dedup,
                      Append(dups, [dup |-> question,
                                    orig |-> seen_normalized[normalized],
                                    score |-> ExactScore]))

\* Stage 1, the loop `for question in questions` with seen_normalized (a
\* dict normalized form -> first question), deduplicated and duplicates
RECURSIVE ExactStage(_, _, _, _, _)
ExactStage(qs, k, seen_normalized, dedup, dups) ==
    IF k > Len(qs) THEN [deduplicated |-> dedup, duplicates |-> dups]
    ELSE LET question   == qs[k]
             normalized == _normalize_text(question.text)
         IN  IF normalized \notin DOMAIN seen_normalized
             THEN ExactStage(qs, k + 1,
                             [n \in DOMAIN seen_normalized \cup {normalized} |->
                                 IF n = normalized THEN question ELSE seen_normalized[n]],
                             Append(dedup, question), dups)
             ELSE ExactStage(qs, k + 1, seen_normalized, dedup,
                             Append(dups, [dup |-> question,
                                           orig |-> seen_normalized[normalized],
                                           score |-> ExactScore]))

\* Mutant: the outer loop does not skip a removed index
SkipOuter_Never(i, indices_to_remove) == FALSE

\* `if i in indices_to_remove: continue` of the outer loop
SkipOuter(i, indices_to_remove) == i \in indices_to_remove

\* Mutant: the inner loop does not skip a removed index
SkipInner_Never(j, indices_to_remove) == FALSE

\* `if j in indices_to_remove: continue` of the inner loop
SkipInner(j, indices_to_remove) == j \in indices_to_remove

\* Mutant: the comparison with the threshold is reversed
IsSemanticDuplicate_Reversed(similarity, t) == ~ScoreGE(similarity, t)

\* `if similarity >= similarity_threshold`
IsSemanticDuplicate(similarity, t) == ScoreGE(similarity, t)

\* Stage 2, the nested loops over i and j > i with indices_to_remove and
\* semantic_duplicates
RECURSIVE SemanticSweep(_, _, _, _, _, _)
SemanticSweep(dedup, t, i, j, indices_to_remove, semantic_duplicates) ==
    IF i > Len(dedup)
    THEN [indices_to_remove |-> indices_to_remove,
          semantic_duplicates |-> semantic_duplicates]
    ELSE IF SkipOuter(i, indices_to_remove) \/ j > Len(dedup)
    THEN SemanticSweep(dedup, t, i + 1, i + 2, indices_to_remove, semantic_duplicates)
    ELSE IF SkipInner(j, indices_to_remove)
    THEN SemanticSweep(dedup, t, i, j + 1, indices_to_remove, semantic_duplicates)
    ELSE LET similarity == _compute_cosine_similarity(Embedding(dedup[i].text),
                                                      Embedding(dedup[j].text))
         IN  IF IsSemanticDuplicate(similarity, t)
             THEN SemanticSweep(dedup, t, i, j + 1, indices_to_remove \cup {j},
                                Append(semantic_duplicates,
                                       [dup |-> dedup[j], orig |-> dedup[i],
                                        score |-> similarity]))
             ELSE SemanticSweep(dedup, t, i, j + 1, indices_to_remove,
                                semantic_duplicates)

\* Mutant: the list is returned as the exact-match stage left it
KeepNotRemoved_All(dedup, k, indices_to_remove) == dedup

\* [q for idx, q in enumerate(deduplicated) if idx not in indices_to_remove]
RECURSIVE KeepNotRemoved(_, _, _)
KeepNotRemoved(dedup, k, indices_to_remove) ==
    IF k > Len(dedup) THEN <<>>
    ELSE IF k \in indices_to_remove
         THEN KeepNotRemoved(dedup, k + 1, indices_to_remove)
         ELSE <<dedup[k]>> \o KeepNotRemoved(dedup, k + 1, indices_to_remove)

\* `if output_dropped_file and duplicates: save_dropped_duplicates(...)`
SavesDropped(cfg, dups) == cfg.out_file /\ dups # <<>>

\* save_dropped_duplicates: one record per tuple, the file opened with "w".
\* match_type is decided on the unrounded score; the file shows the score
\* rounded to four decimals, the record here keeps the value it was
\* rounded from.
DroppedRecord(d) ==
    [dropped |-> d.dup, kept |-> d.orig, score |-> d.score,
     match_type |-> IF ScoreIsOne(d.score) THEN "exact_match"
                                           ELSE "semantic_similarity"]

save_dropped_duplicates(dups) == [k \in DOMAIN dups |-> DroppedRecord(dups[k])]

\* The whole call: what it raises or returns, the duplicates it found and
\* the content of the dropped-duplicates file afterwards
DeduplicateQuestions(qs, cfg, t, file) ==
    IF ~ThresholdValid(t) \/ (cfg.use_semantic /\ ~cfg.has_client)
    THEN [pc |-> "raised", deduplicated |-> <<>>, duplicates |-> <<>>, file |-> file,
          embedding_called |-> FALSE]
    ELSE IF qs = <<>>
    THEN [pc |-> "returned", deduplicated |-> <<>>, duplicates |-> <<>>, file |-> file,
          embedding_called |-> FALSE]
    ELSE LET exact == ExactStage(qs, 1, <<>>, <<>>, <<>>)
             texts == [k \in DOMAIN exact.deduplicated |->
                          exact.deduplicated[k].text]
             semantic == cfg.use_semantic /\ Len(exact.deduplicated) > 1
                         /\ ~EmbeddingsFailed(texts, cfg.fail_at)
             sweep == SemanticSweep(exact.deduplicated, t, 1, 2, {}, <<>>)
             dedup == IF semantic
                      THEN KeepNotRemoved(exact.deduplicated, 1, sweep.indices_to_remove)
                      ELSE exact.deduplicated
             dups  == IF semantic
                      THEN exact.duplicates \o sweep.semantic_duplicates
                      ELSE exact.duplicates
         IN  [pc |-> "returned", deduplicated |-> dedup, duplicates |-> dups,
              file |-> IF SavesDropped(cfg, dups)
                       THEN save_dropped_duplicates(dups) ELSE file,
              embedding_called |-> cfg.use_semantic /\ Len(exact.deduplicated) > 1]

NoPrev == [valid |-> FALSE, threshold |-> [num |-> 0, den |-> 1], count |-> 0]

DedupRest ==
    /\ questions = <<>>
    /\ similarity_threshold = [num |-> 0, den |-> 1]
    /\ dedup_cfg = [use_semantic |-> FALSE, has_client |-> FALSE,
                    fail_at |-> 0, out_file |-> FALSE]
    /\ dd_pc = "idle"
    /\ deduplicated = <<>>
    /\ duplicates = <<>>
    /\ dropped_file = <<>>
    /\ embedding_called = FALSE
    /\ prev_run = NoPrev

DedupStart ==
    /\ questions \in {MkQuestions(texts) : texts \in SeqsUpTo(Texts, MaxQuestions)}
    /\ dedup_cfg \in DedupConfigs
    /\ similarity_threshold = [num |-> 0, den |-> 1]
    /\ dd_pc = "ready"
    /\ deduplicated = <<>>
    /\ duplicates = <<>>
    /\ dropped_file = <<>>
    /\ embedding_called = FALSE
    /\ prev_run = NoPrev

\* A call deduplicate_questions(questions, ..., similarity_threshold = t)
Deduplicate(t) ==
    /\ dd_pc = "ready"
    /\ LET r == DeduplicateQuestions(questions, dedup_cfg, t, dropped_file)
       IN  /\ similarity_threshold' = t
           /\ dd_pc' = r.pc
           /\ deduplicated' = r.deduplicated
           /\ duplicates' = r.duplicates
           /\ dropped_file' = r.file
           /\ embedding_called' = r.embedding_called
    /\ UNCHANGED <<questions, dedup_cfg, prev_run>>
    /\ UNCHANGED exceptDedup

\* The caller keeps the outcome and calls again on the same list with
\* another threshold (test_deduplicate_semantic_threshold_affects_results)
CallAgain ==
    /\ dd_pc = "returned"
    /\ ~prev_run.valid
    /\ dedup_cfg.use_semantic /\ dedup_cfg.fail_at = 0
    /\ prev_run' = [valid |-> TRUE, threshold |-> similarity_threshold,
                    count |-> Len(deduplicated)]
    /\ dd_pc' = "ready"
    /\ UNCHANGED <<questions, dedup_cfg, similarity_threshold, deduplicated,
                   duplicates, dropped_file, embedding_called>>
    /\ UNCHANGED exceptDedup

NextDedup ==
    \/ \E t \in Thresholds : Deduplicate(t)
    \/ CallAgain



(***************************************************************************)
(* The machines at rest.                                                   *)
(***************************************************************************)
NoEntry == "none"

RetryRest ==
    /\ op = "categorize"
    /\ max_retries = 0
    /\ cached = FALSE
    /\ backend = <<>>
    /\ attempt = 0
    /\ rt_pc = "idle"
    /\ cache = NoEntry
    /\ backend_calls = 0
    /\ log = <<>>

PoolRest ==
    /\ pool_n = 0
    /\ max_workers = 1
    /\ task = <<>>
    /\ answers = <<>>
    /\ future = <<>>
    /\ collected = {}
    /\ successfully_categorized = <<>>
    /\ failed_categorizations = <<>>
    /\ pool_pc = "idle"

NoFiles == [f \in {"output", "dropped_duplicates", "failed_reformulations",
                   "failed_usage_mode", "failed_subject_topics"} |-> <<>>]

PipeRest ==
    /\ pl_pc = "idle"
    /\ input_file = <<>>
    /\ all_questions = <<>>
    /\ all_failed_reformulations = <<>>
    /\ categorized_questions = <<>>
    /\ failed_usage_mode = <<>>
    /\ subject_categorized_questions = <<>>
    /\ failed_subject_topics = <<>>
    /\ deduplicated_questions = <<>>
    /\ run_duplicates = <<>>
    /\ files = NoFiles
    /\ files_at_start = {}

ExtractRest ==
    /\ conv_messages = <<>>
    /\ has_llm_client = FALSE
    /\ msg_i = 1
    /\ user_message_index = 0
    /\ ex_questions = <<>>
    /\ failed_reformulations = <<>>
    /\ reformulate_calls = {}
    /\ ex_pc = "idle"

BatchRest ==
    /\ cq_questions = <<>>
    /\ cq_i = 1
    /\ cq_successfully_categorized = <<>>
    /\ cq_failed_categorizations = <<>>
    /\ cq_calls = <<>>
    /\ cq_pc = "idle"

ContextRest ==
    /\ previous_messages = <<>>
    /\ context = <<>>
    /\ context_msgs = <<>>
    /\ cx_pc = "idle"

ClientRest ==
    /\ _enabled = FALSE
    /\ _cache = <<>>
    /\ _stats = [hits |-> 0, misses |-> 0]
    /\ cl_n = 0
    /\ cl_workers = 1
    /\ cl_request = <<>>
    /\ cl_pc = <<>>
    /\ cl_local = <<>>
    /\ api_calls = 0

InitDedup == DedupStart /\ RetryRest /\ PoolRest /\ PipeRest /\ ExtractRest
             /\ BatchRest /\ ClientRest /\ ContextRest

SpecDedup == InitDedup /\ [][NextDedup]_vars

(***************************************************************************)
(* Claims about the semantic stage (SpecDedup).                            *)
(***************************************************************************)
\* The exact-stage survivors of the current input
Survivors == ExactStage(questions, 1, <<>>, <<>>, <<>>).deduplicated

\* The call returned and its semantic stage ran to the end
SemanticRan ==
    /\ dd_pc = "returned"
    /\ dedup_cfg.use_semantic /\ dedup_cfg.has_client
    /\ dedup_cfg.fail_at \notin 1..Len(Survivors)
    /\ Len(Survivors) > 1

Similar(E, i, j, t) ==
    ScoreGE(_compute_cosine_similarity(Embedding(E[i].text), Embedding(E[j].text)), t)

\* a, b, c are the survivors, a~b and b~c but not a~c
NonTransitiveTriple ==
    /\ SemanticRan
    /\ Len(Survivors) = 3
    /\ Similar(Survivors, 1, 2, similarity_threshold)
    /\ Similar(Survivors, 2, 3, similarity_threshold)
    /\ ~Similar(Survivors, 1, 3, similarity_threshold)

\* C1 as stated: with survivors a, b, c, a~b, b~c and not a~c, both b and
\* c are dropped and only a is retained.
C1_OnlyFirstRetained ==
    NonTransitiveTriple => deduplicated = <<Survivors[1]>>

\* C1 amended: with survivors a, b, c, a~b, b~c and not a~c, only b is
\* dropped (as a duplicate of a); a and c are retained, in this order.
C1_FirstAndThirdRetained ==
    NonTransitiveTriple =>
        /\ deduplicated = <<Survivors[1], Survivors[3]>>
        /\ \E k \in DOMAIN duplicates :
              duplicates[k].dup = Survivors[2] /\ duplicates[k].orig = Survivors[1]
        /\ \A k \in DOMAIN duplicates : duplicates[k].dup # Survivors[3]

C1_Witness == NonTransitiveTriple /\ Len(deduplicated) = 2

\* The indices among 1..k that one ordered sweep removes: j is removed
\* exactly when an earlier index that was not removed is similar to it
RECURSIVE RemovedUpTo(_, _, _)
RemovedUpTo(E, t, k) ==
    IF k = 0 THEN {}
    ELSE LET R == RemovedUpTo(E, t, k - 1)
         IN  IF \E i \in (1..(k - 1)) \ R : Similar(E, i, k, t)
             THEN R \cup {k} ELSE R

\* The index j is marked a duplicate of: the first retained similar one
OriginalOf(E, t, R, j) ==
    CHOOSE i \in (1..(j - 1)) \ R :
        /\ Similar(E, i, j, t)
        /\ \A h \in (1..(i - 1)) \ R : ~Similar(E, h, j, t)

SemanticPart ==
    SubSeq(duplicates, Len(questions) - Len(Survivors) + 1, Len(duplicates))

\* C2: the semantic stage is one ordered sweep over the survivors: j is
\* removed as a duplicate of i exactly when sim(i,j) >= t and neither was
\* removed earlier (pairs visited with i ascending, then j ascending);
\* nothing else is removed and the retained questions keep input order.
C2_SingleOrderedSweep ==
    SemanticRan =>
        LET E == Survivors
            t == similarity_threshold
            R == RemovedUpTo(E, t, Len(E))
            S == SemanticPart
        IN  /\ deduplicated = KeepNotRemoved(E, 1, R)
            /\ \A k \in 1..(Len(deduplicated) - 1) :
                  deduplicated[k].id < deduplicated[k + 1].id
            /\ Len(S) = Cardinality(R)
            /\ \A j \in R : \E k \in DOMAIN S :
                  S[k].dup = E[j] /\ S[k].orig = E[OriginalOf(E, t, R, j)]
            /\ \A k \in 1..(Len(S) - 1) :
                  \/ S[k].orig.id < S[k + 1].orig.id
                  \/ S[k].orig.id = S[k + 1].orig.id /\ S[k].dup.id < S[k + 1].dup.id

\* a removed question lies between two retained ones, and a question
\* similar to a removed one is retained
C2_Witness ==
    /\ SemanticRan
    /\ LET E == Survivors
           R == RemovedUpTo(E, similarity_threshold, Len(E))
       IN  \E j \in R : \E k \in (j + 1)..Len(E) :
              k \notin R /\ Similar(E, j, k, similarity_threshold)
    /\ Len(deduplicated) >= 2

\* sim >= t is transitive among the survivors
TransitiveAt(E, t) ==
    \A i, j, k \in DOMAIN E :
        (i # j /\ j # k /\ i # k /\ Similar(E, i, j, t) /\ Similar(E, j, k, t))
            => Similar(E, i, k, t)

TwoRuns ==
    /\ dd_pc = "returned"
    /\ prev_run.valid
    /\ ThresholdLT(prev_run.threshold, similarity_threshold)

\* C3 as stated: for thresholds t1 < t2, the call with t2 returns at least
\* as many questions as the call with t1 on the same list.
C3_Monotone ==
    TwoRuns => prev_run.count <= Len(deduplicated)

\* C3 amended: for thresholds t1 < t2, the call with t2 returns at least
\* as many questions as the call with t1 whenever similarity >= t1 is
\* transitive among the exact-stage survivors.
C3_MonotoneIfTransitive ==
    (TwoRuns /\ TransitiveAt(Survivors, prev_run.threshold))
        => prev_run.count <= Len(deduplicated)

C3_Witness ==
    /\ TwoRuns
    /\ TransitiveAt(Survivors, prev_run.threshold)
    /\ Len(Survivors) >= 3
    /\ prev_run.count < Len(Survivors)
    /\ prev_run.count < Len(deduplicated)
    /\ Len(deduplicated) < Len(Survivors)

(***************************************************************************)
(* Claims about the dropped-duplicates record (SpecDedup).                 *)
(***************************************************************************)
\* The call returned and wrote the dropped-duplicates file
RecordWritten == dd_pc = "returned" /\ SavesDropped(dedup_cfg, duplicates)

\* Number of questions dropped by the exact-match stage
ExactDropped == Len(questions) - Len(Survivors)

\* C21: the record has one entry per dropped question (len(input) -
\* len(output) entries); an entry of the exact-match stage carries
\* similarity 1.0 and match type exact, and an entry of the semantic stage
\* carries the computed similarity (any value >= t) and match type semantic.
C21_OneEntryPerDropped ==
    RecordWritten =>
        /\ Len(dropped_file) = Len(questions) - Len(deduplicated)
        /\ \A k \in DOMAIN dropped_file :
              LET e == dropped_file[k]
              IN  IF k <= ExactDropped
                  THEN /\ e.score = ExactScore
                       /\ e.match_type = "exact_match"
                  ELSE /\ e.score = _compute_cosine_similarity(
                                        Embedding(e.kept.text),
                                        Embedding(e.dropped.text))
                       /\ ScoreGE(e.score, similarity_threshold)
                       /\ e.match_type = "semantic_similarity"

(***************************************************************************)
(* deduplicate_questions with the semantic stage enabled, the failing      *)
(* embedding call at any position (SpecSemantic).                          *)
(***************************************************************************)
MaxSemanticQuestions == 4

SemanticConfigs ==
    [use_semantic : {TRUE}, has_client : {TRUE},
     fail_at : 0..MaxSemanticQuestions, out_file : {TRUE}]

SemanticStart ==
    /\ questions \in {MkQuestions(texts) :
                         texts \in SeqsUpTo(Texts, MaxSemanticQuestions)}
    /\ dedup_cfg \in SemanticConfigs
    /\ similarity_threshold = [num |-> 0, den |-> 1]
    /\ dd_pc = "ready"
    /\ deduplicated = <<>>
    /\ duplicates = <<>>
    /\ dropped_file = <<>>
    /\ embedding_called = FALSE
    /\ prev_run = NoPrev

NextSemantic == \E t \in Thresholds : Deduplicate(t)

InitSemantic == SemanticStart /\ RetryRest /\ PoolRest /\ PipeRest /\ ExtractRest
                /\ BatchRest /\ ClientRest /\ ContextRest

SpecSemantic == InitSemantic /\ [][NextSemantic]_vars

\* C27: after a semantic stage that ran to its end without an embedding
\* failure, no two questions of the returned list have similarity >= t.
C27_NoSimilarPairRetained ==
    SemanticRan =>
        \A i, j \in DOMAIN deduplicated :
            i # j => ~Similar(deduplicated, i, j, similarity_threshold)

\* Four survivors of which the stage removed one and retained three, with
\* a threshold strictly between 0 and 1
C27_Witness ==
    /\ SemanticRan
    /\ Len(Survivors) = 4
    /\ Len(deduplicated) = 3
    /\ 0 < similarity_threshold.num
    /\ similarity_threshold.num < similarity_threshold.den

\* C28: the 'kept original' of every entry of the dropped-duplicates record
\* (of either stage) is a question of the returned list.
C28_KeptOriginalRetained ==
    dd_pc = "returned" =>
        /\ \A k \in DOMAIN duplicates : duplicates[k].orig \in Range(deduplicated)
        /\ SavesDropped(dedup_cfg, duplicates) =>
              \A k \in DOMAIN dropped_file :
                  dropped_file[k].kept \in Range(deduplicated)

\* The call returned although an embedding call failed
EmbeddingFailed ==
    /\ dd_pc = "returned"
    /\ Len(Survivors) > 1
    /\ dedup_cfg.fail_at \in 1..Len(Survivors)

\* C30: when embedding generation fails for any question of the semantic
\* stage, deduplicate_questions does not raise; it returns the result of
\* the exact-match stage and records the exact duplicates only: no
\* question is removed on semantic grounds.
C30_EmbeddingFailureFallsBack ==
    /\ (dd_pc = "raised") =>
          ~ThresholdValid(similarity_threshold)
    /\ EmbeddingFailed =>
          /\ deduplicated = Survivors
          /\ Len(duplicates) = Len(questions) - Len(Survivors)
          /\ \A k \in DOMAIN duplicates :
                /\ duplicates[k].score = ExactScore
                /\ _normalize_text(duplicates[k].dup.text)
                      = _normalize_text(duplicates[k].orig.text)
          /\ SavesDropped(dedup_cfg, duplicates) =>
                /\ Len(dropped_file) = Len(duplicates)
                /\ \A k \in DOMAIN dropped_file :
                      dropped_file[k].match_type = "exact_match"

\* The third embedding call failed; two of the three survivors are similar
\* at the threshold and both are returned; one exact duplicate is recorded
C30_Witness ==
    /\ EmbeddingFailed
    /\ dedup_cfg.fail_at = 3
    /\ Len(Survivors) = 3
    /\ Len(questions) = 4
    /\ Len(dropped_file) = 1
    /\ Similar(Survivors, 1, 2, similarity_threshold)
    /\ deduplicated = Survivors

(***************************************************************************)
(* The LLM-call retry loops: reformulate_question_llm,                     *)
(* categorize_question_llm and categorize_subject_topics_llm, calling      *)
(* client.chat.completions.create on a plain or a caching client.          *)
(***************************************************************************)
MaxRetries == 2

Ops == {"reformulate", "categorize", "subject"}

\* What one backend call yields.  Completions: well-formed; not JSON;
\* JSON lacking a required key; JSON whose required key holds a value of
\* the wrong type (a string where a list is expected, a list where a string
\* is); empty content; cut off at the token limit (finish_reason "length",
\* the content an unfinished JSON text).
\* Exceptions: RateLimitError; another APIError (a timeout).
Completions ==
    {"ok", "invalid_json", "missing_key", "wrong_type", "empty", "truncated"}
Exceptions  == {"rate_limit", "api_error"}
Kinds       == Completions \cup Exceptions

\* _CompletionsNamespace.create: a hit returns the cached completion and
\* the backend is not called; a miss calls the backend and stores the
\* completion it returns (a backend exception propagates, nothing stored)
CachedCreate(is_cached, entry, script, n_backend) ==
    IF is_cached /\ entry # NoEntry
    THEN [kind |-> entry, cache |-> entry, backend_calls |-> n_backend]
    ELSE LET kind == script[n_backend + 1]
         IN  [kind |-> kind,
              cache |-> IF is_cached /\ kind \in Completions THEN kind ELSE entry,
              backend_calls |-> n_backend + 1]

Return    == [next |-> "return", sleep |-> 0]
Raise     == [next |-> "raise",  sleep |-> 0]
Retry     == [next |-> "retry",  sleep |-> 0]
RetryAfter(secs) == [next |-> "retry", sleep |-> secs]

\* categorize_question_llm, the generic handler `except Exception`:
\* `if attempt == max_retries - 1: raise`, no sleep
CategorizeOther(att, n) == IF att = n - 1 THEN Raise ELSE Retry

\* categorize_question_llm, `except json.JSONDecodeError`:
\* `if attempt == max_retries: raise ValueError`, no sleep
CategorizeInvalidJson(att, n) == IF att = n THEN Raise ELSE Retry

\* categorize_question_llm: one pass of the loop body on a response.  The
\* required fields are only tested for presence and UsageMode is a plain
\* dataclass, so a value of the wrong type is returned like a good one
CategorizeAttempt(kind, att, n) ==
    CASE kind \in {"ok", "wrong_type"} -> Return
      [] kind \in {"invalid_json", "truncated"} -> CategorizeInvalidJson(att, n)
      [] kind = "rate_limit"   -> IF att < n THEN RetryAfter(Pow2(att + 1)) ELSE Raise
      [] OTHER                 -> CategorizeOther(att, n)

\* reformulate_question_llm: every failure takes one of two handlers with
\* the same body: raise on the last attempt, else sleep 2 ** (attempt + 1)
ReformulateAttempt_Backoff0(kind, att, n) ==
    IF kind = "ok" THEN Return
    ELSE IF att = n THEN Raise ELSE RetryAfter(Pow2(att))

ReformulateAttempt(kind, att, n) ==
    IF kind = "ok" THEN Return
    ELSE IF att = n THEN Raise ELSE RetryAfter(Pow2(att + 1))

\* categorize_subject_topics_llm: result.get("subject_topics", []) makes a
\* missing key an empty label list; the ValueError raised when
\* subject_topics is not a list is not a JSONDecodeError and is caught by
\* `except Exception`; every failure raises on the last attempt, else
\* sleeps 2 ** attempt
SubjectAttempt(kind, att, n) ==
    IF kind \in {"ok", "missing_key"} THEN Return
    ELSE IF att = n THEN Raise ELSE RetryAfter(Pow2(att))

Attempt(o, kind, att, n) ==
    CASE o = "categorize"  -> CategorizeAttempt(kind, att, n)
      [] o = "reformulate" -> ReformulateAttempt(kind, att, n)
      [] o = "subject"     -> SubjectAttempt(kind, att, n)

\* The statement after the loop `for attempt in range(max_retries + 1)`:
\* a raise, except in categorize_subject_topics_llm (`return []`)
AfterLoop(o) == IF o = "subject" THEN "returned" ELSE "raised"

RetryStart ==
    /\ op \in Ops
    /\ max_retries \in 0..MaxRetries
    /\ cached \in BOOLEAN
    /\ backend \in [1..(max_retries + 1) -> Kinds]
    /\ attempt = 0
    /\ rt_pc = "call"
    /\ cache = NoEntry
    /\ backend_calls = 0
    /\ log = <<>>

\* One pass of the loop body: the create call and the handling of what it
\* yields, up to the return, the raise, the sleep or the next pass
LLMCall ==
    /\ rt_pc = "call"
    /\ LET r == CachedCreate(cached, cache, backend, backend_calls)
           o == Attempt(op, r.kind, attempt, max_retries)
       IN  /\ cache' = r.cache
           /\ backend_calls' = r.backend_calls
           /\ log' = IF o.sleep > 0
                     THEN log \o << <<"call", r.kind>>, <<"sleep", o.sleep>> >>
                     ELSE Append(log, <<"call", r.kind>>)
           /\ rt_pc' = CASE o.next = "return" -> "returned"
                         [] o.next = "raise"  -> "raised"
                         [] o.sleep > 0       -> "sleep"
                         [] attempt = max_retries -> AfterLoop(op)
                         [] OTHER             -> "call"
           /\ attempt' = IF o.next = "retry" /\ o.sleep = 0 /\ attempt < max_retries
                         THEN attempt + 1 ELSE attempt
    /\ UNCHANGED <<op, max_retries, cached, backend>>
    /\ UNCHANGED exceptRetry

\* time.sleep returns and the loop goes to its next pass
SleepDone ==
    /\ rt_pc = "sleep"
    /\ rt_pc' = "call"
    /\ attempt' = attempt + 1
    /\ UNCHANGED <<op, max_retries, cached, backend, cache, backend_calls, log>>
    /\ UNCHANGED exceptRetry

NextRetry == LLMCall \/ SleepDone

InitRetry == RetryStart /\ DedupRest /\ PoolRest /\ PipeRest /\ ExtractRest
             /\ BatchRest /\ ClientRest /\ ContextRest

SpecRetry == InitRetry /\ [][NextRetry]_vars

(***************************************************************************)
(* Claims about the retry loops (SpecRetry).                               *)
(***************************************************************************)
IsCall(e)  == e[1] = "call"
IsSleep(e) == e[1] = "sleep"

RetryDone == rt_pc \in {"returned", "raised"}

\* C8: in categorize_question_llm, for every max_retries >= 0, a response
\* that is valid JSON lacking a required key, or an empty completion, makes
\* the call raise after that single attempt: no LLM call follows it.
C8_ContractFailureNotRetried ==
    op = "categorize" =>
        \A k \in DOMAIN log :
            (IsCall(log[k]) /\ log[k][2] \in {"missing_key", "empty"})
                => (k = Len(log) /\ rt_pc = "raised")

\* C23: in categorize_subject_topics_llm, a response that is valid JSON but
\* has no 'subject_topics' key, or whose 'subject_topics' is not a list,
\* makes the call fail at once: no LLM call follows it and the call does
\* not return a label list.
C23_SubjectContractFailureRaises ==
    op = "subject" =>
        \A k \in DOMAIN log :
            (IsCall(log[k]) /\ log[k][2] \in {"missing_key", "wrong_type"})
                => (k = Len(log) /\ rt_pc = "raised")

\* C26: categorize_question_llm with max_retries = n makes exactly n+1 LLM
\* attempts before it gives up when every attempt fails with invalid JSON,
\* a rate limit or another API error.
C26_CategorizeAttempts ==
    (/\ op = "categorize"
     /\ RetryDone
     /\ \A k \in DOMAIN log :
           IsCall(log[k]) => log[k][2] \in {"invalid_json", "rate_limit", "api_error"})
        => /\ rt_pc = "raised"
           /\ Cardinality({k \in DOMAIN log : IsCall(log[k])}) = max_retries + 1

\* C9: in categorize_question_llm, an attempt that fails with invalid JSON
\* and is followed by another attempt is followed by a backoff sleep first:
\* no two consecutive LLM calls happen without a sleep in between.
C9_SleepBetweenAttempts ==
    op = "categorize" =>
        \A k \in 1..(Len(log) - 1) :
            (IsCall(log[k]) /\ log[k][2] = "invalid_json") => IsSleep(log[k + 1])

\* C10: through the caching client with max_retries >= 1, when the backend
\* answers its first call with a malformed completion and would answer its
\* next call with a well-formed one, the operation succeeds.
C10_TransientMalformedRecovered ==
    (/\ cached
     /\ max_retries >= 1
     /\ backend[1] = "invalid_json"
     /\ backend[2] = "ok"
     /\ RetryDone)
        => rt_pc = "returned"

\* C14: reformulate_question_llm with max_retries = n makes at most n+1
\* LLM calls; it returns at the first attempt that yields a well-formed
\* completion; after the k-th failed attempt (k = 1..n) it sleeps 2^k
\* seconds before the next attempt; it does not sleep after the last failed
\* attempt and raises once all n+1 attempts have failed.
C14_ReformulateRetries ==
    op = "reformulate" =>
        /\ rt_pc \in {"call", "sleep", "returned", "raised"}
        /\ Len(log) <= 2 * max_retries + 1
        /\ \A p \in DOMAIN log :
              IF p % 2 = 1
              THEN IsCall(log[p]) /\ (p < Len(log) => log[p][2] # "ok")
              ELSE log[p] = <<"sleep", Pow2(p \div 2)>>
        /\ rt_pc = "call" => (log = <<>> \/ IsSleep(log[Len(log)]))
        /\ rt_pc = "sleep" => IsSleep(log[Len(log)])
        /\ rt_pc = "returned" => log[Len(log)] = <<"call", "ok">>
        /\ rt_pc = "raised" =>
              /\ Len(log) = 2 * max_retries + 1
              /\ IsCall(log[Len(log)]) /\ log[Len(log)][2] # "ok"

\* Two failed attempts, each followed by its sleep, and a third attempt that
\* succeeds
C14_Witness ==
    /\ op = "reformulate"
    /\ max_retries = 2
    /\ rt_pc = "returned"
    /\ Len(log) = 5
    /\ log[2] = <<"sleep", 2>>
    /\ log[4] = <<"sleep", 4>>

(***************************************************************************)
(* categorize_subject_topics: one task per question on a                   *)
(* ThreadPoolExecutor(max_workers), the driver collecting the futures      *)
(* with as_completed.                                                      *)
(***************************************************************************)
MaxPoolQuestions == 3
MaxPoolWorkers   == 2

\* max_retries of the call categorize_subject_topics_llm(question, client,
\* model) in categorize_single_question: the default
SubjectPoolRetries == 0

PoolKinds == {"ok", "invalid_json", "api_error"}

PoolQuestions == 1..pool_n

Running == {q \in PoolQuestions : task[q] = "calling"}

\* Mutant: a thread is started for every submitted task
CanStart_Always(running, limit) == TRUE

\* The executor runs a queued task only on one of its max_workers threads
CanStart(running, limit) == running < limit

\* Mutant: categorize_single_question lets the exception through
TaskResult_Propagates(outcome) == IF outcome.next = "raise" THEN "exception" ELSE "ok"

\* categorize_single_question: `return question, True`, or in the handler
\* `except Exception` `return question, False`
TaskResult(outcome) == IF outcome.next = "raise" THEN "fail" ELSE "ok"

PoolStart ==
    /\ pool_n \in 0..MaxPoolQuestions
    /\ max_workers \in 1..MaxPoolWorkers
    /\ answers \in [1..pool_n -> PoolKinds]
    /\ task = [q \in 1..pool_n |-> "unsubmitted"]
    /\ future = [q \in 1..pool_n |-> "pending"]
    /\ collected = {}
    /\ successfully_categorized = <<>>
    /\ failed_categorizations = <<>>
    /\ pool_pc = IF pool_n = 0 THEN "collecting" ELSE "submitting"

\* executor.submit(categorize_single_question, question), in list order;
\* after the last one the driver enters the as_completed loop
Submit(q) ==
    /\ pool_pc = "submitting"
    /\ task[q] = "unsubmitted"
    /\ \A h \in 1..(q - 1) : task[h] # "unsubmitted"
    /\ task' = [task EXCEPT ![q] = "queued"]
    /\ pool_pc' = IF q = pool_n THEN "collecting" ELSE "submitting"
    /\ UNCHANGED <<pool_n, max_workers, answers, future, collected,
                   successfully_categorized, failed_categorizations>>
    /\ UNCHANGED exceptPool

\* A worker thread takes the oldest queued task and enters the LLM call
TaskStart(q) ==
    /\ task[q] = "queued"
    /\ \A h \in 1..(q - 1) : task[h] # "queued"
    /\ CanStart(Cardinality(Running), max_workers)
    /\ task' = [task EXCEPT ![q] = "calling"]
    /\ UNCHANGED <<pool_n, max_workers, answers, future, collected,
                   successfully_categorized, failed_categorizations, pool_pc>>
    /\ UNCHANGED exceptPool

\* The LLM call of a task comes back and categorize_single_question ends
TaskFinish(q) ==
    /\ q \in PoolQuestions
    /\ task[q] = "calling"
    /\ task' = [task EXCEPT ![q] = "done"]
    /\ future' = [future EXCEPT ![q] =
                     TaskResult(SubjectAttempt(answers[q], 0, SubjectPoolRetries))]
    /\ UNCHANGED <<pool_n, max_workers, answers, collected,
                   successfully_categorized, failed_categorizations, pool_pc>>
    /\ UNCHANGED exceptPool

\* One pass of `for future in as_completed(...)`: future.result() and the
\* append to one of the two lists; an exception held by the future leaves
\* the loop
Collect(q) ==
    /\ pool_pc = "collecting"
    /\ q \in PoolQuestions \ collected
    /\ future[q] # "pending"
    /\ collected' = collected \cup {q}
    /\ successfully_categorized' =
          IF future[q] = "ok" THEN Append(successfully_categorized, q)
                              ELSE successfully_categorized
    /\ failed_categorizations' =
          IF future[q] = "fail" THEN Append(failed_categorizations, q)
                                ELSE failed_categorizations
    /\ pool_pc' = IF future[q] = "exception" THEN "aborting" ELSE "collecting"
    /\ UNCHANGED <<pool_n, max_workers, answers, task, future>>
    /\ UNCHANGED exceptPool

\* The end of `with ThreadPoolExecutor(...)`: shutdown(wait=True) waits for
\* every task, then the function returns (or the exception goes on)
PoolExit ==
    /\ IF pool_pc = "aborting" THEN TRUE
       ELSE pool_pc = "collecting" /\ collected = PoolQuestions
    /\ \A q \in PoolQuestions : task[q] = "done"
    /\ pool_pc' = IF pool_pc = "aborting" THEN "raised" ELSE "returned"
    /\ UNCHANGED <<pool_n, max_workers, answers, task, future, collected,
                   successfully_categorized, failed_categorizations>>
    /\ UNCHANGED exceptPool

NextPool ==
    \/ \E q \in PoolQuestions : Submit(q)
    \/ \E q \in PoolQuestions : TaskStart(q)
    \/ \E q \in PoolQuestions : TaskFinish(q)
    \/ \E q \in PoolQuestions : Collect(q)
    \/ PoolExit

InitPool == PoolStart /\ DedupRest /\ RetryRest /\ PipeRest /\ ExtractRest
             /\ BatchRest /\ ClientRest /\ ContextRest

SpecPool == InitPool /\ [][NextPool]_vars

(***************************************************************************)
(* Claims about the worker pool (SpecPool).                                *)
(***************************************************************************)
\* The questions whose categorization raises
Raising ==
    {q \in PoolQuestions :
        SubjectAttempt(answers[q], 0, SubjectPoolRetries).next = "raise"}

NoRepeats(s) == \A h, k \in DOMAIN s : h # k => s[h] # s[k]

\* C4: with N questions of which M raise, categorize_subject_topics
\* returns only after all N tasks have finished, with N-M questions in the
\* success list and M in the failure list, every question in exactly one
\* of them; an exception in a task never fails the driver or blocks the
\* other tasks.
C4_PoolPartition ==
    /\ pool_pc \notin {"aborting", "raised"}
    /\ pool_pc \in {"submitting", "collecting"} => ENABLED NextPool
    /\ pool_pc = "returned" =>
          /\ \A q \in PoolQuestions : task[q] = "done"
          /\ Len(successfully_categorized) = pool_n - Cardinality(Raising)
          /\ Len(failed_categorizations) = Cardinality(Raising)
          /\ Range(failed_categorizations) = Raising
          /\ Range(successfully_categorized) = PoolQuestions \ Raising
          /\ NoRepeats(successfully_categorized)
          /\ NoRepeats(failed_categorizations)

\* the pool returned with failures and successes, a failure collected
\* before a success
C4_Witness ==
    /\ pool_pc = "returned"
    /\ pool_n >= 3
    /\ Cardinality(Raising) >= 1
    /\ Len(successfully_categorized) >= 2
    /\ 1 \in Raising

\* C5: at every moment the number of LLM calls in flight is at most
\* max_workers.
C5_BoundedInFlight == Cardinality(Running) <= max_workers

\* every worker is in an LLM call while a submitted task waits
C5_Witness ==
    /\ Cardinality(Running) = max_workers
    /\ max_workers >= 2
    /\ \E q \in PoolQuestions : task[q] = "queued"


(***************************************************************************)
(* process_conversations (main.py): one run of the pipeline after another *)
(* on the same output path.  The files of a run stay on disk for the next. *)
(***************************************************************************)
MaxPipelineQuestions == 2

\* User turns of the filtered conversations: a text can come twice (an
\* exact duplicate) and the two texts have parallel embeddings (a semantic
\* duplicate when the embedding call succeeds)
PipelineTexts == { <<"a">>, <<" ", "b", " ", ".">> }

\* The defaults deduplicate_questions gets from process_conversations:
\* use_semantic = True, both embedding arguments given, a dropped file
PipelineDedupCfg(embed_ok) ==
    [use_semantic |-> TRUE, has_client |-> TRUE,
     fail_at |-> IF embed_ok THEN 0 ELSE 1,
     out_file |-> TRUE]

\* similarity_threshold: float = 0.92
DefaultThreshold == [num |-> 23, den |-> 25]

Ids(qs) == {qs[k].id : k \in DOMAIN qs}
\* The success list of a stage: the failed questions are left out
Without_KeepsAll(qs, ids) == qs

Without(qs, ids) == SelectSeq(qs, LAMBDA q : q.id \notin ids)
\* The failure list of a stage: the failed questions and no other
Only_Nothing(qs, ids) == <<>>

Only(qs, ids) == SelectSeq(qs, LAMBDA q : q.id \in ids)

\* The orders in which as_completed can hand back n futures
Perms(n) == {f \in [1..n -> 1..n] : \A i, j \in 1..n : i # j => f[i] # f[j]}

\* open(output_file, "w") followed by one dump per record
WriteFile_Append(old, records) == old \o records

WriteFile(old, records) == records

\* Steps 1-3: load, filter, and the loop over extract_golden_questions;
\* a turn whose reformulation raises goes to all_failed_reformulations
ExtractAll(failing) ==
    /\ pl_pc = "start"
    /\ all_questions' = Without(MkQuestions(input_file), failing)
    /\ all_failed_reformulations' = Only(MkQuestions(input_file), failing)
    /\ pl_pc' = "extracted"
    /\ UNCHANGED <<input_file, categorized_questions, failed_usage_mode,
                   subject_categorized_questions, failed_subject_topics,
                   deduplicated_questions, run_duplicates, files,
                   files_at_start>>
    /\ UNCHANGED exceptPipe

\* _save_failed_reformulations(all_failed_reformulations, ...)
SaveFailedReformulations ==
    /\ pl_pc = "extracted"
    /\ files' = [files EXCEPT !["failed_reformulations"] =
                    WriteFile(@, all_failed_reformulations)]
    /\ pl_pc' = "usage_mode"
    /\ UNCHANGED <<input_file, all_questions, all_failed_reformulations,
                   categorized_questions, failed_usage_mode,
                   subject_categorized_questions, failed_subject_topics,
                   deduplicated_questions, run_duplicates, files_at_start>>
    /\ UNCHANGED exceptPipe

\* Step 4: categorize_questions_llm, sequential, input order kept
CategorizeUsageMode(failing) ==
    /\ pl_pc = "usage_mode"
    /\ categorized_questions' = Without(all_questions, failing)
    /\ failed_usage_mode' = Only(all_questions, failing)
    /\ pl_pc' = "subject_topics"
    /\ UNCHANGED <<input_file, all_questions, all_failed_reformulations,
                   subject_categorized_questions, failed_subject_topics,
                   deduplicated_questions, run_duplicates, files,
                   files_at_start>>
    /\ UNCHANGED exceptPipe

\* Step 5: categorize_subject_topics, results in completion order
CategorizeSubjectTopics(order, failing) ==
    /\ pl_pc = "subject_topics"
    /\ LET completed == [k \in DOMAIN categorized_questions |->
                            categorized_questions[order[k]]]
       IN  /\ subject_categorized_questions' = Without(completed, failing)
           /\ failed_subject_topics' = Only(completed, failing)
    /\ pl_pc' = "save_failed_usage_mode"
    /\ UNCHANGED <<input_file, all_questions, all_failed_reformulations,
                   categorized_questions, failed_usage_mode,
                   deduplicated_questions, run_duplicates, files,
                   files_at_start>>
    /\ UNCHANGED exceptPipe

\* _save_failed_categorizations(failed_usage_mode, failed_usage_mode_file)
SaveFailedUsageMode ==
    /\ pl_pc = "save_failed_usage_mode"
    /\ files' = [files EXCEPT !["failed_usage_mode"] =
                    WriteFile(@, failed_usage_mode)]
    /\ pl_pc' = "save_failed_subject_topics"
    /\ UNCHANGED <<input_file, all_questions, all_failed_reformulations,
                   categorized_questions, failed_usage_mode,
                   subject_categorized_questions, failed_subject_topics,
                   deduplicated_questions, run_duplicates, files_at_start>>
    /\ UNCHANGED exceptPipe

\* _save_failed_categorizations(failed_subject_topics, ...)
SaveFailedSubjectTopics ==
    /\ pl_pc = "save_failed_subject_topics"
    /\ files' = [files EXCEPT !["failed_subject_topics"] =
                    WriteFile(@, failed_subject_topics)]
    /\ pl_pc' = "deduplicate"
    /\ UNCHANGED <<input_file, all_questions, all_failed_reformulations,
                   categorized_questions, failed_usage_mode,
                   subject_categorized_questions, failed_subject_topics,
                   deduplicated_questions, run_duplicates, files_at_start>>
    /\ UNCHANGED exceptPipe

\* Step 6: deduplicate_questions(subject_categorized_questions,
\* output_dropped_file = ..., embedding_client = ..., embedding_model = ...)
DeduplicateStep(embed_ok) ==
    /\ pl_pc = "deduplicate"
    /\ LET r == DeduplicateQuestions(subject_categorized_questions,
                                     PipelineDedupCfg(embed_ok),
                                     DefaultThreshold,
                                     files["dropped_duplicates"])
       IN  /\ deduplicated_questions' = r.deduplicated
           /\ run_duplicates' = r.duplicates
           /\ files' = [files EXCEPT !["dropped_duplicates"] = r.file]
           /\ pl_pc' = IF r.pc = "raised" THEN "raised" ELSE "save_output"
    /\ UNCHANGED <<input_file, all_questions, all_failed_reformulations,
                   categorized_questions, failed_usage_mode,
                   subject_categorized_questions, failed_subject_topics,
                   files_at_start>>
    /\ UNCHANGED exceptPipe

\* Step 7: save_golden_questions(deduplicated_questions, output_file)
SaveOutput ==
    /\ pl_pc = "save_output"
    /\ files' = [files EXCEPT !["output"] =
                    WriteFile(@, deduplicated_questions)]
    /\ pl_pc' = "done"
    /\ UNCHANGED <<input_file, all_questions, all_failed_reformulations,
                   categorized_questions, failed_usage_mode,
                   subject_categorized_questions, failed_subject_topics,
                   deduplicated_questions, run_duplicates, files_at_start>>
    /\ UNCHANGED exceptPipe

\* The program is started again on the same input and output paths: fresh
\* locals, the files of the finished run still on disk
RunAgain ==
    /\ pl_pc = "done"
    /\ pl_pc' = "start"
    /\ all_questions' = <<>>
    /\ all_failed_reformulations' = <<>>
    /\ categorized_questions' = <<>>
    /\ failed_usage_mode' = <<>>
    /\ subject_categorized_questions' = <<>>
    /\ failed_subject_topics' = <<>>
    /\ deduplicated_questions' = <<>>
    /\ run_duplicates' = <<>>
    /\ files_at_start' = {f \in DOMAIN files : files[f] # <<>>}
    /\ UNCHANGED <<input_file, files>>
    /\ UNCHANGED exceptPipe

PipeStart ==
    /\ pl_pc = "start"
    /\ input_file \in SeqsUpTo(PipelineTexts, MaxPipelineQuestions)
    /\ all_questions = <<>>
    /\ all_failed_reformulations = <<>>
    /\ categorized_questions = <<>>
    /\ failed_usage_mode = <<>>
    /\ subject_categorized_questions = <<>>
    /\ failed_subject_topics = <<>>
    /\ deduplicated_questions = <<>>
    /\ run_duplicates = <<>>
    /\ files = NoFiles
    /\ files_at_start = {}

NextPipeline ==
    \/ \E failing \in SUBSET (DOMAIN input_file) : ExtractAll(failing)
    \/ SaveFailedReformulations
    \/ \E failing \in SUBSET Ids(all_questions) : CategorizeUsageMode(failing)
    \/ \E order \in Perms(Len(categorized_questions)) :
           \E failing \in SUBSET Ids(categorized_questions) :
               CategorizeSubjectTopics(order, failing)
    \/ SaveFailedUsageMode
    \/ SaveFailedSubjectTopics
    \/ \E embed_ok \in BOOLEAN : DeduplicateStep(embed_ok)
    \/ SaveOutput
    \/ RunAgain

InitPipeline == PipeStart /\ DedupRest /\ RetryRest /\ PoolRest /\ ExtractRest
             /\ BatchRest /\ ClientRest /\ ContextRest

SpecPipeline == InitPipeline /\ [][NextPipeline]_vars

(***************************************************************************)
(* Claims about the files of a run.                                        *)
(***************************************************************************)
RunDone == pl_pc = "done"

\* C6: after a run, the dropped-duplicates file holds exactly the
\* duplicates that run dropped (it is rewritten on every run, no record of
\* an earlier run remains).
C6_DroppedFileRewritten ==
    RunDone => files["dropped_duplicates"] = save_dropped_duplicates(run_duplicates)

DedupSeen ==
    Ids(deduplicated_questions) \cup {run_duplicates[k].dup.id : k \in DOMAIN run_duplicates}

\* The positions of the orchestrator at which the stage has not run yet
StagesBefore(stage) ==
    CASE stage = "usage_mode"     -> {"start", "extracted", "usage_mode"}
      [] stage = "subject_topics" -> {"start", "extracted", "usage_mode",
                                      "subject_topics"}
      [] stage = "deduplicate"    -> {"start", "extracted", "usage_mode",
                                      "subject_topics", "save_failed_usage_mode",
                                      "save_failed_subject_topics", "deduplicate"}

\* C16: a question that failed usage-mode categorization is never given to
\* subject-topic categorization, deduplication or the main output, and a
\* question that failed subject-topic categorization is never given to
\* deduplication or the main output; a stage has no result before the
\* stage before it has finished, and it is given exactly the successes of
\* that stage.
C16_FailedExcludedDownstream ==
    /\ Ids(all_failed_reformulations) \cap Ids(all_questions) = {}
    /\ Ids(failed_usage_mode) \cap
          (Ids(subject_categorized_questions) \cup Ids(failed_subject_topics)
           \cup DedupSeen) = {}
    /\ Ids(failed_subject_topics) \cap DedupSeen = {}
    /\ RunDone =>
          Ids(files["output"]) \cap
             (Ids(failed_usage_mode) \cup Ids(failed_subject_topics)) = {}
    /\ pl_pc \in StagesBefore("usage_mode") =>
          categorized_questions = <<>> /\ failed_usage_mode = <<>>
    /\ pl_pc \in StagesBefore("subject_topics") =>
          subject_categorized_questions = <<>> /\ failed_subject_topics = <<>>
    /\ pl_pc \in StagesBefore("deduplicate") =>
          deduplicated_questions = <<>> /\ run_duplicates = <<>>
    /\ pl_pc \notin StagesBefore("usage_mode") =>
          Ids(categorized_questions) \cup Ids(failed_usage_mode) = Ids(all_questions)
    /\ pl_pc \notin StagesBefore("subject_topics") =>
          Ids(subject_categorized_questions) \cup Ids(failed_subject_topics)
             = Ids(categorized_questions)
    /\ pl_pc \notin StagesBefore("deduplicate") =>
          DedupSeen = Ids(subject_categorized_questions)

\* A finished run in which one question failed usage-mode categorization
\* and another one reached the main output
C16_Witness ==
    /\ RunDone
    /\ failed_usage_mode # <<>>
    /\ files["output"] # <<>>
    /\ files["output"] = deduplicated_questions

\* C20: a run in which zero items enter a stage completes without raising,
\* that stage and every later one return empty lists, and the files those
\* stages write hold nothing after the run: the main output and the dropped-
\* duplicates file when nothing enters deduplication, every file of the run
\* when the input has no conversation.
C20_EmptyStagesWriteEmptyFiles ==
    /\ pl_pc # "raised"
    /\ RunDone =>
          /\ all_questions = <<>> =>
                categorized_questions = <<>> /\ failed_usage_mode = <<>>
          /\ categorized_questions = <<>> =>
                subject_categorized_questions = <<>> /\ failed_subject_topics = <<>>
          /\ subject_categorized_questions = <<>> =>
                /\ deduplicated_questions = <<>>
                /\ run_duplicates = <<>>
                /\ files["output"] = <<>>
                /\ files["dropped_duplicates"] = <<>>
          /\ input_file = <<>> => files = NoFiles

(***************************************************************************)
(* One run of process_conversations on a longer input: where every         *)
(* extracted question ends up.                                             *)
(***************************************************************************)
MaxAccountQuestions == 4

AccountStart ==
    /\ pl_pc = "start"
    /\ input_file \in SeqsUpTo(PipelineTexts, MaxAccountQuestions)
    /\ all_questions = <<>>
    /\ all_failed_reformulations = <<>>
    /\ categorized_questions = <<>>
    /\ failed_usage_mode = <<>>
    /\ subject_categorized_questions = <<>>
    /\ failed_subject_topics = <<>>
    /\ deduplicated_questions = <<>>
    /\ run_duplicates = <<>>
    /\ files = NoFiles
    /\ files_at_start = {}

NextAccount ==
    \/ \E failing \in SUBSET (DOMAIN input_file) : ExtractAll(failing)
    \/ SaveFailedReformulations
    \/ \E failing \in SUBSET Ids(all_questions) : CategorizeUsageMode(failing)
    \/ /\ pl_pc = "subject_topics"
       /\ \E order \in Perms(Len(categorized_questions)) :
              \E failing \in SUBSET Ids(categorized_questions) :
                  CategorizeSubjectTopics(order, failing)
    \/ SaveFailedUsageMode
    \/ SaveFailedSubjectTopics
    \/ \E embed_ok \in BOOLEAN : DeduplicateStep(embed_ok)
    \/ SaveOutput

InitAccount == AccountStart /\ DedupRest /\ RetryRest /\ PoolRest /\ ExtractRest
            /\ BatchRest /\ ClientRest /\ ContextRest

SpecAccount == InitAccount /\ [][NextAccount]_vars

\* How many entries of a list carry the id
Occurrences(qs, id) == Cardinality({k \in DOMAIN qs : qs[k].id = id})

\* How many dropped-duplicate records of the run are about the id
TimesDropped(id) ==
    Cardinality({k \in DOMAIN run_duplicates : run_duplicates[k].dup.id = id})

\* C29: at the end of a run every question extraction produced is in
\* exactly one of the failed usage-mode list, the failed subject-topic
\* list, the dropped duplicates and the final output, once, and the sizes
\* of the four add up to the number of extracted questions, whichever
\* questions fail and in whichever order the subject-topic tasks complete.
C29_EveryQuestionAccounted ==
    RunDone =>
        /\ \A id \in Ids(all_questions) :
               Occurrences(failed_usage_mode, id)
                 + Occurrences(failed_subject_topics, id)
                 + TimesDropped(id)
                 + Occurrences(files["output"], id) = 1
        /\ Len(failed_usage_mode) + Len(failed_subject_topics)
             + (Len(subject_categorized_questions) - Len(deduplicated_questions))
             + Len(files["output"]) = Len(all_questions)
        /\ Len(run_duplicates)
             = Len(subject_categorized_questions) - Len(deduplicated_questions)
        /\ Len(all_questions) = Cardinality(Ids(all_questions))

\* A finished run with a question in each of the four places, the subject-
\* topic tasks having completed out of submission order
C29_Witness ==
    /\ RunDone
    /\ Len(all_questions) = 4
    /\ Len(failed_usage_mode) = 1
    /\ Len(failed_subject_topics) = 1
    /\ Len(run_duplicates) = 1
    /\ Len(files["output"]) = 1
    /\ failed_subject_topics[1].id > files["output"][1].id

(***************************************************************************)
(* extract_golden_questions (extractor.py): the loop over conv.messages of *)
(* one conversation.                                                       *)
(***************************************************************************)
MaxMessages == 3

ConversationId == "abc123xyz"

\* Message.role: "system", "user", "assistant" or None
Roles == {"system", "user", "assistant", "None"}

\* Message.text: empty, blank, and a question with leading whitespace
MessageTexts == { <<>>, <<" ">>, <<" ", "q">> }

Messages == [role : Roles, text : MessageTexts]

\* str.strip()
RECURSIVE LStrip(_)
LStrip(text) ==
    IF text # <<>> /\ Head(text) \in Whitespace THEN LStrip(Tail(text)) ELSE text

RECURSIVE RStrip(_)
RStrip(text) ==
    IF text # <<>> /\ text[Len(text)] \in Whitespace
    THEN RStrip(SubSeq(text, 1, Len(text) - 1)) ELSE text

Strip(text) == RStrip(LStrip(text))

\* `if not msg.text or not msg.text.strip(): continue`
IsEmptyMessage(msg) == msg.text = <<>> \/ Strip(msg.text) = <<>>

\* `if i > 0 and llm_client is not None` (i counts from 0, msg_i from 1)
CallsReformulate(i, client) == i > 1 /\ client

\* generate_message_id(conv.id, user_message_index)
generate_message_id(conversation_id, index) == <<conversation_id, index>>

\* What reformulate_question_llm does on a turn: it returns the stripped
\* text unchanged, returns another text, or raises
ReformulateOutcomes == {"unchanged", "changed", "raises"}

Reformulated(outcome, text) == IF outcome = "changed" THEN <<"r">> ELSE Strip(text)

\* The counter after the except branch: `user_message_index += 1; continue`
IndexAfterFailure_Same(index) == index

IndexAfterFailure(index) == index + 1

\* The list `questions` after the except branch: nothing is appended
QuestionsAfterFailure_Fallback(qs, q) == Append(qs, q)

QuestionsAfterFailure(qs, q) == qs

\* GoldenQuestion(id, question, original_question, conversation_id,
\* metadata.created, question_changed)
GoldenQuestion(index, standalone_q, msg, created) ==
    [id |-> generate_message_id(ConversationId, index),
     question |-> standalone_q,
     original_question |-> Strip(msg.text),
     conversation_id |-> ConversationId,
     created |-> created,
     question_changed |-> standalone_q # Strip(msg.text)]

\* The record appended to failed_reformulations
FailedReformulation(index, msg, created) ==
    [id |-> generate_message_id(ConversationId, index),
     conversation_id |-> ConversationId,
     original_question |-> Strip(msg.text),
     failure_reason |-> "Failed to reformulate",
     created |-> created]

ExtractStart ==
    /\ conv_messages \in SeqsUpTo(Messages, MaxMessages)
    /\ has_llm_client \in BOOLEAN
    /\ msg_i = 1
    /\ user_message_index = 0
    /\ ex_questions = <<>>
    /\ failed_reformulations = <<>>
    /\ reformulate_calls = {}
    /\ ex_pc = IF conv_messages = <<>> THEN "returned" ELSE "loop"

\* One pass of `for i, msg in enumerate(conv.messages)`
ExtractMessage(outcome) ==
    /\ ex_pc = "loop"
    /\ LET msg   == conv_messages[msg_i]
           skip  == msg.role # "user" \/ IsEmptyMessage(msg)
           calls == ~skip /\ CallsReformulate(msg_i, has_llm_client)
           fails == calls /\ outcome = "raises"
           standalone_q == IF calls THEN Reformulated(outcome, msg.text)
                           ELSE Strip(msg.text)
       IN  /\ (~calls) => outcome = "unchanged"
           /\ reformulate_calls' = IF calls THEN reformulate_calls \cup {msg_i}
                                   ELSE reformulate_calls
           /\ failed_reformulations' =
                 IF fails
                 THEN Append(failed_reformulations,
                             FailedReformulation(user_message_index, msg, msg_i))
                 ELSE failed_reformulations
           /\ ex_questions' =
                 IF skip THEN ex_questions
                 ELSE IF fails
                 THEN QuestionsAfterFailure(ex_questions,
                          GoldenQuestion(user_message_index, Strip(msg.text), msg, msg_i))
                 ELSE Append(ex_questions,
                          GoldenQuestion(user_message_index, standalone_q, msg, msg_i))
           /\ user_message_index' =
                 IF skip THEN user_message_index
                 ELSE IF fails THEN IndexAfterFailure(user_message_index)
                 ELSE user_message_index + 1
    /\ msg_i' = msg_i + 1
    /\ ex_pc' = IF msg_i = Len(conv_messages) THEN "returned" ELSE "loop"
    /\ UNCHANGED <<conv_messages, has_llm_client>>
    /\ UNCHANGED exceptExtract

NextExtract == \E outcome \in ReformulateOutcomes : ExtractMessage(outcome)

InitExtract == ExtractStart /\ DedupRest /\ RetryRest /\ PoolRest /\ PipeRest
             /\ BatchRest /\ ClientRest /\ ContextRest

SpecExtract == InitExtract /\ [][NextExtract]_vars

(***************************************************************************)
(* Claims about extract_golden_questions (SpecExtract).                    *)
(***************************************************************************)
UserTurns == {i \in DOMAIN conv_messages : conv_messages[i].role = "user"}

NonEmptyUserTurns == {i \in UserTurns : ~IsEmptyMessage(conv_messages[i])}

\* The turns the loop has gone through
Processed(turns) == {i \in turns : i < msg_i}

Positions(records) == {records[k].created : k \in DOMAIN records}

Increasing(records) ==
    \A j, k \in DOMAIN records : j < k => records[j].created < records[k].created

ExtractRecords == Range(ex_questions) \cup Range(failed_reformulations)

\* C11: no reformulation call is made for the first user turn of the
\* conversation, whatever messages come before it, and the turn is emitted
\* with its question text equal to its original text.
C11_FirstTurnPassedThrough ==
    \A f \in NonEmptyUserTurns :
        (\A i \in NonEmptyUserTurns : f <= i) =>
            /\ f \notin reformulate_calls
            /\ f < msg_i =>
                  \E k \in DOMAIN ex_questions :
                      /\ ex_questions[k].created = f
                      /\ ex_questions[k].question = ex_questions[k].original_question

C13_TurnsPartitioned ==
    /\ Increasing(ex_questions)
    /\ Increasing(failed_reformulations)
    /\ Positions(ex_questions) \cap Positions(failed_reformulations) = {}
    /\ Positions(ex_questions) \cup Positions(failed_reformulations)
          = Processed(NonEmptyUserTurns)
    /\ \A k \in DOMAIN failed_reformulations :
          LET r == failed_reformulations[k]
          IN  /\ r.conversation_id = ConversationId
              /\ r.original_question = Strip(conv_messages[r.created].text)
              /\ r.failure_reason # ""
              /\ r.created \in reformulate_calls
    /\ ex_pc = "returned" => Processed(NonEmptyUserTurns) = NonEmptyUserTurns

\* The loop has returned; the second of three non-empty user turns failed
\* reformulation and the turns before and after it were extracted
C13_Witness ==
    /\ ex_pc = "returned"
    /\ Len(ex_questions) = 2
    /\ Len(failed_reformulations) = 1
    /\ ex_questions[1].created < failed_reformulations[1].created
    /\ failed_reformulations[1].created < ex_questions[2].created

(***************************************************************************)
(* categorize_questions_llm (categorizer_llm.py): the sequential batch     *)
(* loop, one categorize_question_llm call per question.                    *)
(***************************************************************************)
MaxBatchQuestions == 3

\* max_retries of the call categorize_question_llm(question, client, model)
\* in the batch loop: the default
UsageModeRetries == 0

\* categorize_question_llm(question, client, model) on a backend that
\* answers every call with `kind`: the calls it makes and how it ends
RECURSIVE CategorizeCall(_, _, _)
CategorizeCall(kind, att, n) ==
    LET o == CategorizeAttempt(kind, att, n)
    IN  IF o.next = "return" THEN [ends |-> "returned", calls |-> att + 1]
        ELSE IF o.next = "raise" THEN [ends |-> "raised", calls |-> att + 1]
        ELSE IF att = n THEN [ends |-> AfterLoop("categorize"), calls |-> att + 1]
        ELSE CategorizeCall(kind, att + 1, n)

\* The handler of the batch loop: `except Exception` appends the question
\* to failed_categorizations
BatchOutcome_Propagates(ends) == IF ends = "raised" THEN "raise" ELSE "success"

BatchOutcome(ends) == IF ends = "raised" THEN "failed" ELSE "success"

BatchStart ==
    /\ cq_questions \in {MkQuestions(texts) :
                            texts \in SeqsUpTo(PipelineTexts, MaxBatchQuestions)}
    /\ cq_i = 1
    /\ cq_successfully_categorized = <<>>
    /\ cq_failed_categorizations = <<>>
    /\ cq_calls = <<>>
    /\ cq_pc = IF cq_questions = <<>> THEN "returned" ELSE "loop"

\* One pass of `for question in questions`
CategorizeNext(kind) ==
    /\ cq_pc = "loop"
    /\ LET question == cq_questions[cq_i]
           r == CategorizeCall(kind, 0, UsageModeRetries)
           outcome == BatchOutcome(r.ends)
       IN  /\ cq_calls' = cq_calls \o [k \in 1..r.calls |-> <<question.id, kind>>]
           /\ cq_successfully_categorized' =
                 IF outcome = "success"
                 THEN Append(cq_successfully_categorized, question)
                 ELSE cq_successfully_categorized
           /\ cq_failed_categorizations' =
                 IF outcome = "failed"
                 THEN Append(cq_failed_categorizations, question)
                 ELSE cq_failed_categorizations
           /\ cq_pc' = IF outcome = "raise" THEN "raised"
                       ELSE IF cq_i = Len(cq_questions) THEN "returned"
                       ELSE "loop"
    /\ cq_i' = cq_i + 1
    /\ UNCHANGED cq_questions
    /\ UNCHANGED exceptBatch

NextBatch == \E kind \in Kinds : CategorizeNext(kind)

InitBatch == BatchStart /\ DedupRest /\ RetryRest /\ PoolRest /\ PipeRest
             /\ ExtractRest /\ ClientRest /\ ContextRest

SpecBatch == InitBatch /\ [][NextBatch]_vars

(***************************************************************************)
(* Claims about categorize_questions_llm (SpecBatch).                      *)
(***************************************************************************)
IsSubsequence(sub, qs) ==
    /\ \A k \in DOMAIN sub : sub[k] \in Range(qs)
    /\ \A j, k \in DOMAIN sub : j < k => sub[j].id < sub[k].id

\* C15: categorize_questions_llm never raises because of a question; each
\* question the loop has gone through is in exactly one of the lists
\* succeeded and failed, both in input order; the LLM is called for every
\* question, also after an earlier question failed; when the function
\* returns every input question is in one of the two lists.
C15_BatchIsolation ==
    /\ cq_pc # "raised"
    /\ IsSubsequence(cq_successfully_categorized, cq_questions)
    /\ IsSubsequence(cq_failed_categorizations, cq_questions)
    /\ Ids(cq_successfully_categorized) \cap Ids(cq_failed_categorizations) = {}
    /\ Ids(cq_successfully_categorized) \cup Ids(cq_failed_categorizations)
          = {cq_questions[k].id : k \in 1..(cq_i - 1)}
    /\ {cq_calls[k][1] : k \in DOMAIN cq_calls}
          = {cq_questions[k].id : k \in 1..(cq_i - 1)}
    /\ cq_pc = "returned" => cq_i = Len(cq_questions) + 1
    /\ cq_pc = "loop" => cq_i <= Len(cq_questions)

\* The batch has returned; its first question failed and a later one was
\* categorized
C15_Witness ==
    /\ cq_pc = "returned"
    /\ Len(cq_questions) >= 2
    /\ cq_questions[1] \in Range(cq_failed_categorizations)
    /\ cq_questions[Len(cq_questions)] \in Range(cq_successfully_categorized)

(***************************************************************************)
(* deduplicate_questions with use_semantic = False: the exact-match stage  *)
(* alone, on texts that differ in case, punctuation and whitespace, and a  *)
(* second call on the list the first call returned.                        *)
(***************************************************************************)
MaxExactQuestions == 3

\* "a", "A?", "a_", "b", " b .", "a  b", "a b."
ExactTexts ==
    { <<"a">>, <<"A", "?">>, <<"a", "_">>, <<"b">>, <<" ", "b", " ", ".">>,
      <<"a", " ", " ", "b">>, <<"a", " ", "b", ".">> }

ExactConfigs ==
    [use_semantic : {FALSE}, has_client : BOOLEAN, fail_at : {0},
     out_file : BOOLEAN]

ExactStart ==
    /\ questions \in {MkQuestions(texts) : texts \in SeqsUpTo(ExactTexts, MaxExactQuestions)}
    /\ dedup_cfg \in ExactConfigs
    /\ similarity_threshold = [num |-> 0, den |-> 1]
    /\ dd_pc = "ready"
    /\ deduplicated = <<>>
    /\ duplicates = <<>>
    /\ dropped_file = <<>>
    /\ embedding_called = FALSE
    /\ prev_run = NoPrev

\* The caller passes the returned list to a second call
FeedBack ==
    /\ dd_pc = "returned"
    /\ ~prev_run.valid
    /\ questions' = deduplicated
    /\ prev_run' = [valid |-> TRUE, threshold |-> similarity_threshold,
                    count |-> Len(duplicates)]
    /\ dd_pc' = "ready"
    /\ UNCHANGED <<dedup_cfg, similarity_threshold, deduplicated, duplicates,
                   dropped_file, embedding_called>>
    /\ UNCHANGED exceptDedup

NextExact ==
    \/ \E t \in Thresholds : Deduplicate(t)
    \/ FeedBack

InitExact == ExactStart /\ RetryRest /\ PoolRest /\ PipeRest /\ ExtractRest
             /\ BatchRest /\ ClientRest /\ ContextRest

SpecExact == InitExact /\ [][NextExact]_vars

(***************************************************************************)
(* Claims about exact-match deduplication (SpecExact) and about the        *)
(* argument checks of deduplicate_questions (SpecDedup).                   *)
(***************************************************************************)
\* The form a text is expected to have after lowercasing, removing
\* punctuation and collapsing whitespace.  The underscore is a word
\* character of the pattern [^\w\s] and stays.
ExpectedForm(text) ==
    CASE text = <<"a">>                -> "a"
      [] text = <<"A", "?">>           -> "a"
      [] text = <<"a", "_">>           -> "a_"
      [] text = <<"b">>                -> "b"
      [] text = <<" ", "b", " ", ".">> -> "b"
      [] text = <<"a", " ", " ", "b">> -> "a b"
      [] text = <<"a", " ", "b", ".">> -> "a b"

\* Positions of the questions that are the first of their form
FirstOfForm(qs) ==
    {k \in DOMAIN qs :
        \A j \in 1..(k - 1) : ExpectedForm(qs[j].text) # ExpectedForm(qs[k].text)}

\* The subsequence of qs at the positions P
Pick(qs, P) ==
    LET idx == SelectSeq([k \in DOMAIN qs |-> k], LAMBDA k : k \in P)
    IN  [j \in DOMAIN idx |-> qs[idx[j]]]

C18_ExactIdempotent ==
    (dd_pc = "returned" /\ prev_run.valid /\ ~dedup_cfg.use_semantic) =>
        /\ deduplicated = questions
        /\ duplicates = <<>>

\* The second call has returned; the first call had dropped two questions
C18_Witness ==
    /\ dd_pc = "returned"
    /\ prev_run.valid
    /\ ~dedup_cfg.use_semantic
    /\ prev_run.count = 2
    /\ questions # <<>>

\* similarity_threshold outside [0, 1], or semantic dedup requested without
\* embedding client or model
ConfigInvalid(t, cfg) ==
    \/ t.num * t.den < 0
    \/ t.num * t.num > t.den * t.den
    \/ (cfg.use_semantic /\ ~cfg.has_client)

\* C19: a call of deduplicate_questions with a threshold outside [0, 1], or
\* with semantic dedup enabled and no embedding client or model, raises
\* before doing any work, for every input list including the empty one: it
\* returns no list, reaches no embedding call and leaves the dropped file
\* as it was; and no other call raises.
C19_ConfigErrorRaisedFirst ==
    [][ (dd_pc = "ready" /\ dd_pc' # "ready") =>
            IF ConfigInvalid(similarity_threshold', dedup_cfg)
            THEN /\ dd_pc' = "raised"
                 /\ deduplicated' = <<>>
                 /\ duplicates' = <<>>
                 /\ ~embedding_called'
                 /\ dropped_file' = dropped_file
            ELSE dd_pc' = "returned" ]_vars

\* The call on the empty list, semantic dedup requested without an
\* embedding client, has raised
C19_Witness ==
    /\ dd_pc = "raised"
    /\ questions = <<>>
    /\ dedup_cfg.use_semantic
    /\ ~dedup_cfg.has_client
    /\ ThresholdValid(similarity_threshold)

(***************************************************************************)
(* CachedLLMClient (llm_cache.py): chat.completions.create and             *)
(* embeddings.create called by several threads on one client, as the       *)
(* tasks of categorize_subject_topics do.  The statement                   *)
(* `_stats[...] += 1` is a load, an add and a store; another thread may    *)
(* run between the load and the store.                                     *)
(***************************************************************************)
MaxClientCalls == 3

\* Threads that may be inside create at a time: one (the sequential
\* callers) or two
ClientWorkers == {1, 2}

Requests == { [api |-> "chat", input |-> 1], [api |-> "embeddings", input |-> 1] }

\* The cache key: a hash of the request, "chat_..." or "embed_..."
_generate_key(req) ==
    <<IF req.api = "chat" THEN "chat_" ELSE "embed_", req.input>>

CacheKeys == {_generate_key(req) : req \in Requests}

\* What the underlying client returns to call c (every response has an id
\* of its own); `extra` stands for the fields of the response that the
\* serializers do not copy
ApiResponse(req, c) == [id |-> c, input |-> req.input, extra |-> TRUE]

\* _serialize_chat_completion, _serialize_embedding_response
_serialize(response) == [id |-> response.id, input |-> response.input]

\* _deserialize_chat_completion, _deserialize_embedding_response
_deserialize(data) == [id |-> data.id, input |-> data.input, extra |-> FALSE]

\* Python's None among responses and cache entries
None == [id |-> 0]

\* The locals of a call that has not entered create
NewCall ==
    [tmp |-> 0,                  \* the counter value loaded by `+= 1`
     cached_response |-> None,
     response |-> None,       \* what the underlying client returned
     result |-> None,         \* what create returned to its caller
     read_error |-> FALSE,       \* the first try block raised
     write_error |-> FALSE,      \* the second try block raised
     get_found |-> FALSE,        \* _cache.get returned an entry
     api |-> "none"]             \* the underlying client: "ok", "exception"

InCreate == {c \in 1..cl_n : cl_pc[c] \notin {"new", "returned", "raised"}}

ClientStart ==
    /\ _enabled \in BOOLEAN
    /\ _cache = [k \in CacheKeys |-> None]
    /\ _stats = [hits |-> 0, misses |-> 0]
    /\ cl_n \in 1..MaxClientCalls
    /\ cl_workers \in ClientWorkers
    /\ cl_request \in [1..cl_n -> Requests]
    /\ cl_pc = [c \in 1..cl_n |-> "new"]
    /\ cl_local = [c \in 1..cl_n |-> NewCall]
    /\ api_calls = 0

\* A thread enters create: the key is computed, `if self._enabled`
Enter(c) ==
    /\ cl_pc[c] = "new"
    /\ \A h \in 1..(c - 1) : cl_pc[h] # "new"
    /\ Cardinality(InCreate) < cl_workers
    /\ cl_pc' = [cl_pc EXCEPT ![c] = IF _enabled THEN "get" ELSE "miss_load"]
    /\ UNCHANGED <<_enabled, _cache, _stats, cl_n, cl_workers, cl_request,
                   cl_local, api_calls>>
    /\ UNCHANGED exceptClient

\* `cached_response = self._cache.get(cache_key)`, which may raise, and
\* `if cached_response is not None`
CacheGet(c, outcome) ==
    /\ cl_pc[c] = "get"
    /\ IF outcome = "error"
       THEN /\ cl_local' = [cl_local EXCEPT ![c].read_error = TRUE]
            /\ cl_pc' = [cl_pc EXCEPT ![c] = "miss_load"]
       ELSE LET cached_response == _cache[_generate_key(cl_request[c])]
            IN  /\ cl_local' = [cl_local EXCEPT
                                   ![c].cached_response = cached_response,
                                   ![c].get_found = cached_response # None]
                /\ cl_pc' = [cl_pc EXCEPT ![c] =
                                IF cached_response # None THEN "hit_load"
                                                          ELSE "miss_load"]
    /\ UNCHANGED <<_enabled, _cache, _stats, cl_n, cl_workers, cl_request, api_calls>>
    /\ UNCHANGED exceptClient

\* `_stats["hits"] += 1`: the load
HitLoad(c) ==
    /\ cl_pc[c] = "hit_load"
    /\ cl_local' = [cl_local EXCEPT ![c].tmp = _stats.hits]
    /\ cl_pc' = [cl_pc EXCEPT ![c] = "hit_store"]
    /\ UNCHANGED <<_enabled, _cache, _stats, cl_n, cl_workers, cl_request, api_calls>>
    /\ UNCHANGED exceptClient

\* `_stats["hits"] += 1`: the store; then `return _deserialize_...(...)`,
\* which returns or raises into `except Exception` (the call goes on as a
\* miss)
HitStore(c, outcome) ==
    /\ cl_pc[c] = "hit_store"
    /\ _stats' = [_stats EXCEPT !.hits = cl_local[c].tmp + 1]
    /\ IF outcome = "error"
       THEN /\ cl_local' = [cl_local EXCEPT ![c].read_error = TRUE,
                                           ![c].tmp = 0]
            /\ cl_pc' = [cl_pc EXCEPT ![c] = "miss_load"]
       ELSE /\ cl_local' = [cl_local EXCEPT ![c].tmp = 0,
                                ![c].result = _deserialize(cl_local[c].cached_response)]
            /\ cl_pc' = [cl_pc EXCEPT ![c] = "returned"]
    /\ UNCHANGED <<_enabled, _cache, cl_n, cl_workers, cl_request, api_calls>>
    /\ UNCHANGED exceptClient

\* `_stats["misses"] += 1`: the load
MissLoad(c) ==
    /\ cl_pc[c] = "miss_load"
    /\ cl_local' = [cl_local EXCEPT ![c].tmp = _stats.misses]
    /\ cl_pc' = [cl_pc EXCEPT ![c] = "miss_store"]
    /\ UNCHANGED <<_enabled, _cache, _stats, cl_n, cl_workers, cl_request, api_calls>>
    /\ UNCHANGED exceptClient

\* `_stats["misses"] += 1`: the store
MissStore(c) ==
    /\ cl_pc[c] = "miss_store"
    /\ _stats' = [_stats EXCEPT !.misses = cl_local[c].tmp + 1]
    /\ cl_local' = [cl_local EXCEPT ![c].tmp = 0]
    /\ cl_pc' = [cl_pc EXCEPT ![c] = "api"]
    /\ UNCHANGED <<_enabled, _cache, cl_n, cl_workers, cl_request, api_calls>>
    /\ UNCHANGED exceptClient

\* The call of the underlying client: its exception leaves create; its
\* response is returned at once when the cache is disabled
ApiCall(c, outcome) ==
    /\ cl_pc[c] = "api"
    /\ api_calls' = api_calls + 1
    /\ IF outcome = "exception"
       THEN /\ cl_local' = [cl_local EXCEPT ![c].api = "exception"]
            /\ cl_pc' = [cl_pc EXCEPT ![c] = "raised"]
       ELSE LET response == ApiResponse(cl_request[c], c)
            IN  /\ cl_local' = [cl_local EXCEPT
                                   ![c].api = "ok",
                                   ![c].response = response,
                                   ![c].result = IF _enabled THEN None ELSE response]
                /\ cl_pc' = [cl_pc EXCEPT ![c] = IF _enabled THEN "set" ELSE "returned"]
    /\ UNCHANGED <<_enabled, _cache, _stats, cl_n, cl_workers, cl_request>>
    /\ UNCHANGED exceptClient

\* Mutant: an exception of the second try block leaves create
AfterSet_Propagates(outcome) == IF outcome = "ok" THEN "returned" ELSE "raised"

\* Where create is after the second try block: `except Exception` logs a
\* warning, and `return response` follows in both cases
AfterSet(outcome) == "returned"

\* The second try block: serialize and `self._cache.set(cache_key, ...)`,
\* either of which may raise into `except Exception`; then
\* `return response`
CacheSet(c, outcome) ==
    /\ cl_pc[c] = "set"
    /\ _cache' = IF outcome = "ok"
                 THEN [_cache EXCEPT ![_generate_key(cl_request[c])] =
                                         _serialize(cl_local[c].response)]
                 ELSE _cache
    /\ cl_local' = [cl_local EXCEPT
                       ![c].write_error = (outcome # "ok"),
                       ![c].result = IF AfterSet(outcome) = "returned"
                                     THEN cl_local[c].response ELSE None]
    /\ cl_pc' = [cl_pc EXCEPT ![c] = AfterSet(outcome)]
    /\ UNCHANGED <<_enabled, _stats, cl_n, cl_workers, cl_request, api_calls>>
    /\ UNCHANGED exceptClient

NextClient ==
    \/ \E c \in 1..cl_n : Enter(c)
    \/ \E c \in 1..cl_n : \E outcome \in {"ok", "error"} : CacheGet(c, outcome)
    \/ \E c \in 1..cl_n : HitLoad(c)
    \/ \E c \in 1..cl_n : \E outcome \in {"ok", "error"} : HitStore(c, outcome)
    \/ \E c \in 1..cl_n : MissLoad(c)
    \/ \E c \in 1..cl_n : MissStore(c)
    \/ \E c \in 1..cl_n : \E outcome \in {"ok", "exception"} : ApiCall(c, outcome)
    \/ \E c \in 1..cl_n :
          \E outcome \in {"ok", "serialize_error", "write_error"} : CacheSet(c, outcome)

InitClient == ClientStart /\ DedupRest /\ RetryRest /\ PoolRest /\ PipeRest
              /\ ExtractRest /\ BatchRest /\ ContextRest

SpecClient == InitClient /\ [][NextClient]_vars

(***************************************************************************)
(* Claims about the caching client (SpecClient).                           *)
(***************************************************************************)
AllCallsLeft == \A c \in 1..cl_n : cl_pc[c] \in {"returned", "raised"}

\* C22: the tasks running at the same time share no mutable state, the
\* client's hit and miss counters included, so that when all tasks have
\* ended hits + misses is the number of create calls made (here: when no
\* cache read failed, a call being then either a hit or a miss).
C22_CountersCountCalls ==
    (AllCallsLeft /\ \A c \in 1..cl_n : ~cl_local[c].read_error)
        => _stats.hits + _stats.misses = cl_n

Left(c) == cl_pc[c] \in {"returned", "raised"}

\* The call wrote its response to the cache
Wrote(d) ==
    /\ cl_pc[d] = "returned"
    /\ cl_local[d].api = "ok"
    /\ _enabled /\ ~cl_local[d].write_error

\* C24: for a chat or an embedding call of CachedLLMClient, a cache read
\* that raises makes the call go to the backend as a miss; when
\* serialization or the cache write raises, the response just obtained
\* from the backend is still returned; a cache error never leaves create;
\* and a request repeated after a successful write is served from the
\* cache, without a backend call.
C24_CacheErrorsContained ==
    \A c \in 1..cl_n :
        LET l == cl_local[c]
            fresh == ApiResponse(cl_request[c], c)
        IN  /\ (Left(c) /\ l.read_error) => l.api # "none"
            /\ (Left(c) /\ l.write_error) => cl_pc[c] = "returned"
            /\ cl_pc[c] = "raised" => l.api = "exception"
            /\ (cl_pc[c] = "returned" /\ l.api = "ok") => l.result = fresh
            /\ (Left(c) /\ l.get_found /\ ~l.read_error) =>
                   /\ l.api = "none"
                   /\ cl_pc[c] = "returned"
                   /\ \E d \in (1..cl_n) \ {c} :
                         /\ cl_request[d] = cl_request[c]
                         /\ cl_local[d].response = ApiResponse(cl_request[d], d)
                         /\ l.result = [ApiResponse(cl_request[d], d)
                                           EXCEPT !.extra = FALSE]
            /\ (cl_workers = 1 /\ Left(c) /\ ~l.read_error) =>
                   \A d \in 1..(c - 1) :
                       (cl_request[d] = cl_request[c] /\ Wrote(d))
                           => l.api = "none" /\ cl_pc[c] = "returned"

\* One call had a read error, went to the backend and wrote its response;
\* the same request was then served from the cache; a third call returned
\* its fresh response although the write failed
C24_Witness ==
    /\ cl_n = 3 /\ AllCallsLeft
    /\ cl_local[1].read_error /\ Wrote(1)
    /\ cl_request[2] = cl_request[1]
    /\ cl_local[2].get_found /\ cl_local[2].api = "none"
    /\ cl_local[2].result.id = 1
    /\ cl_local[3].write_error
    /\ cl_local[3].result = ApiResponse(cl_request[3], 3)
    /\ cl_request[3].api = "embeddings"

(***************************************************************************)
(* The context of a user turn in extract_golden_questions, on the branch   *)
(* `i > 0 and llm_client is not None`: reformulate_question_llm builds the *)
(* context of the prompt from previous_messages, and context_msgs is       *)
(* stored on the GoldenQuestion when the call has returned.  Messages      *)
(* carry no chunks (no document title is put before a text).               *)
(***************************************************************************)
MaxPrevious == 4

\* max_messages of _build_context_string: the default
max_messages == 3

\* The slice previous_messages[-3:] of the stored context
StoredSlice == 3

\* s[-n:]
LastN(s, n) == IF Len(s) <= n THEN s ELSE SubSeq(s, Len(s) - n + 1, Len(s))

\* (msg.role or "unknown").capitalize()
RoleLabel(role) ==
    CASE role = "None"      -> "Unknown"
      [] role = "user"      -> "User"
      [] role = "assistant" -> "Assistant"
      [] role = "system"    -> "System"

\* _build_context_string: one line "Role: text" for each of the last
\* max_messages messages
_build_context_string(messages) ==
    LET recent_messages == LastN(messages, max_messages)
    IN  [k \in DOMAIN recent_messages |->
            [role |-> RoleLabel(recent_messages[k].role),
             text |-> Strip(recent_messages[k].text)]]

\* [{"role": m.role, "text": m.text} for m in previous_messages[-3:]
\*  if m.text.strip() and m.role != "system"]
ContextMsgs(previous) ==
    LET kept == SelectSeq(LastN(previous, StoredSlice),
                          LAMBDA m : Strip(m.text) # <<>> /\ m.role # "system")
    IN  [k \in DOMAIN kept |-> [role |-> kept[k].role, text |-> kept[k].text]]

ContextStart ==
    /\ previous_messages \in SeqsUpTo(Messages, MaxPrevious) \ {<<>>}
    /\ context = <<>>
    /\ context_msgs = <<>>
    /\ cx_pc = "reformulate"

\* reformulate_question_llm(msg.text, previous_messages, ...): the context
\* is built before the loop of attempts; the call returns or raises
ReformulateCall(outcome) ==
    /\ cx_pc = "reformulate"
    /\ context' = _build_context_string(previous_messages)
    /\ cx_pc' = IF outcome = "raises" THEN "failed" ELSE "store"
    /\ UNCHANGED <<previous_messages, context_msgs>>
    /\ UNCHANGED exceptContext

\* context_msgs and the GoldenQuestion built with it
StoreContext ==
    /\ cx_pc = "store"
    /\ context_msgs' = ContextMsgs(previous_messages)
    /\ cx_pc' = "done"
    /\ UNCHANGED <<previous_messages, context>>
    /\ UNCHANGED exceptContext

NextContext ==
    \/ \E outcome \in {"returns", "raises"} : ReformulateCall(outcome)
    \/ StoreContext

InitContext == ContextStart /\ DedupRest /\ RetryRest /\ PoolRest /\ PipeRest
               /\ ExtractRest /\ BatchRest /\ ClientRest

SpecContext == InitContext /\ [][NextContext]_vars

(***************************************************************************)
(* Claims about the context (SpecContext).                                 *)
(***************************************************************************)
\* The prior messages with non-empty text, and the most recent 3 of them
NonEmptyPrior == SelectSeq(previous_messages, LAMBDA m : Strip(m.text) # <<>>)

RecentNonEmpty == LastN(NonEmptyPrior, 3)

\* C25: the context passed to the reformulator and the context stored on
\* the GoldenQuestion are the min(3, n) most recent prior messages with
\* non-empty text (n their number): an empty prior message is skipped and
\* takes none of the 3 places.
C25_ContextIsRecentNonEmpty ==
    /\ cx_pc \in {"store", "done", "failed"} =>
          context = [k \in DOMAIN RecentNonEmpty |->
                        [role |-> RoleLabel(RecentNonEmpty[k].role),
                         text |-> Strip(RecentNonEmpty[k].text)]]
    /\ cx_pc = "done" => context_msgs = RecentNonEmpty

=============================================================================
